---- MODULE Spec2Model ----
(***************************************************************************)
(* Model of hf-web-client: the identity custodian (CryptoEngine and its    *)
(* PasswordBasedEngine / HardwareBasedEngine over a key-value store, as    *)
(* driven by IdentityService) and the FabricClient transaction pipeline    *)
(* (prepareTransaction, submitSignedTransaction, _waitForCommit,           *)
(* submitAndCommit).                                                       *)
(***************************************************************************)
EXTENDS Integers, Sequences, FiniteSets, TLC

\* ------------------------------------------------------------------ bounds
\* Number of distinct outcomes of the random generator: draw i yields the
\* 16-byte salt i and the 12-byte IV i.
NumDraws == 2
\* Number of distinct 24-byte nonces generateNonce may return.
NumNonces == 1
\* Number of callers that may have a sign request in flight at once.
NumCallers == 2
\* Number of frames the peer sends on one deliver socket.
MaxFrames == 3
\* Bytes per signature component (32 on P-256).
ComponentLen == 2
\* Number of arguments a caller passes to a chaincode function.
MaxArgs == 2
\* Highest block number a caller asks a block stream to start at.
MaxBlock == 3

\* ------------------------------------------------------- program constants
\* password-based.engine: `strength.score < 3` rejects the password.
MinScore == 3
\* password-based.engine: `options.password.length < 8` rejects the password.
MinPasswordLength == 8

\* ------------------------------------------------------------ input domains
\* Byte values a raw signature is drawn from.
SampleBytes == {0, 127, 128, 255}
Certs == {"certA", "certB"}
\* PKCS8 PEMs of P-256 keys, plus one string jose.importPKCS8 rejects.
ValidKeyPems == {"keyA", "keyB"}
KeyPems == ValidKeyPems \cup {"notAKey"}
\* The (certPem, keyPem) pairs callers supply.
Credentials ==
    {[certPem |-> "certA", keyPem |-> "keyA"],
     [certPem |-> "certB", keyPem |-> "keyB"],
     [certPem |-> "certA", keyPem |-> "notAKey"]}
\* "" is the absent/empty password (falsy in `options.password || ...`).
NoPassword == ""
StrongPasswords == {"my-strong-password-123", "another-Strong-pass-9"}
\* Passwords offered to createPasswordIdentity (when one is offered).
CreatePasswords == {"my-strong-password-123", "password", "Sh0rt!x"}
Mnemonics == {"abandon ability able"}
\* Passwords offered to unlockIdentity.
Secrets == StrongPasswords \cup Mnemonics
\* getRandomValues(16 bytes), getRandomValues(12 bytes).
Randoms == {[salt |-> <<"salt", i>>, iv |-> <<"iv", i>>] : i \in 1..NumDraws}
CredentialIds == {"cred1"}
SignPayloads == {"bytes"}

\* zxcvbn(password).score for the passwords of the model.
ZxcvbnScore(p) ==
    CASE p \in StrongPasswords -> 4
      [] p = "password" -> 0
      [] p = "Sh0rt!x" -> 2
      [] OTHER -> 2

\* password.length for the passwords of the model.
PasswordLength(p) ==
    CASE p = "my-strong-password-123" -> 22
      [] p = "another-Strong-pass-9" -> 21
      [] p = "password" -> 8
      [] p = "Sh0rt!x" -> 7
      [] OTHER -> 0

\* --------------------------------------------------------------- constants
DB_KEYS ==
    [ENCRYPTED_KEY |-> "pbe-fabric-encrypted-private-key",
     CERTIFICATE |-> "pbe-fabric-user-certificate",
     SALT |-> "pbe-fabric-key-derivation-salt",
     IV |-> "pbe-fabric-encryption-iv"]

WEBAUTHN_CREDENTIAL_ID_KEY == "hw-fabric-credential-id"

SealedKeys == {DB_KEYS.ENCRYPTED_KEY, DB_KEYS.CERTIFICATE, DB_KEYS.SALT, DB_KEYS.IV}

\* A null CryptoKey reference and a null certificate string.
NullKey == <<>>
NullCert == "null"

VARIABLES
    isNode,        \* typeof window === "undefined"
    unlockedKey,   \* CryptoEngine.unlockedKey
    unlockedCert,  \* CryptoEngine.unlockedCert
    store,         \* the IKeyValueStore contents: a function on the present keys
    issued,        \* certificates of the AppIdentity objects handed to callers
    ret,           \* what the last public IdentityService call returned
    hist,          \* history of the calls made so far (for the claims)
    pc,            \* position of the submitAndCommit call in flight
    tx,            \* that call's transaction context
    rpc,           \* state of each gateway RPC of that call
    sac,           \* what submitAndCommit returned
    signers,       \* the SignPayload request of each concurrent caller
    stream,        \* the event stream generator in flight, its signal and socket
    api,           \* a FabricClient under construction or in use, and its last call
    signer,        \* a raw signature on its way through signFabricSignature
    proposal,      \* a proposal built by buildProposalPayload, and its bytes
    seek,          \* a deliver request built by createSignedDeliverRequest
    file,          \* the identity file of the FileStore, its temp file and cache
    grounded,      \* an error caught by tryCatch and the message made of it
    persist,       \* the store writes of a createIdentity or deleteIdentity in flight
    race,          \* two FileStore calls running concurrently on one instance
    worker,        \* IdentityService requests in flight to the crypto worker
    sub            \* the callbacks of an onBlockEvent / onChaincodeEvent subscription

custodianVars == <<isNode, unlockedKey, unlockedCert, store, issued, ret, hist>>
clientVars == <<pc, tx, rpc, sac>>
otherVars == <<signers, stream, api, signer>>
utilVars == <<proposal, seek, file, grounded, persist>>
lateVars == <<race, worker, sub>>
vars ==
    <<isNode, unlockedKey, unlockedCert, store, issued, ret, hist, pc, tx, rpc, sac,
      signers, stream, api, signer, proposal, seek, file, grounded, persist,
      race, worker, sub>>

\* ------------------------------------------------------------ crypto helpers
\* jose.importPKCS8(pem, "ES256"): a CryptoKey handle, or a rejection.
ImportableKey(pem) == pem \in ValidKeyPems
ImportPKCS8(pem) == <<"CryptoKey", pem>>

\* PBKDF2-HMAC-SHA256(password, salt): determined by both inputs.
DeriveKeyMaterial(password, salt) == <<"pbkdf2", password, salt>>

\* AES-256-GCM: the ciphertext authenticates under the key and iv it was
\* produced with, and under no other.
AesGcmEncrypt(key, iv, plaintext) == <<"gcm", key, iv, plaintext>>
AesGcmDecryptOk_Unauthenticated(key, iv, ct) == TRUE
AesGcmDecryptOk(key, iv, ct) == ct[2] = key /\ ct[3] = iv
AesGcmDecrypt(key, iv, ct) == ct[4]

\* crypto.subtle.sign(ECDSA/SHA-256, key, payload): the raw R||S signature.
RawSignature(key, payload) == <<"sig", key, payload>>
NoSignature == <<>>

\* ---------------------------------------------------------------- KeyStore
StoreGet(st, k) == IF k \in DOMAIN st THEN <<st[k]>> ELSE <<>>
StoreHas(st, k) == k \in DOMAIN st
StoreKeys(st) == DOMAIN st
StoreSet(st, k, v) == [x \in DOMAIN st \cup {k} |-> IF x = k THEN v ELSE st[x]]
StoreDel(st, k) == [x \in DOMAIN st \ {k} |-> st[x]]
\* FileStore.setMany: every entry set, one save.
StoreSetMany(st, entries) ==
    [x \in DOMAIN st \cup DOMAIN entries |->
        IF x \in DOMAIN entries THEN entries[x] ELSE st[x]]
\* FileStore.clear: the cache is emptied and saved.
StoreClear(st) == [x \in {} |-> 0]
EmptyStore == [x \in {} |-> 0]
\* FileStore offers clear and setMany; IndexedDBStore offers neither.
StoreOffersClear == isNode
StoreOffersSetMany == isNode

\* ------------------------------------------------------------------ results
Failure(msg) ==
    [success |-> FALSE, key |-> NullKey, cert |-> NullCert, phrase |-> "",
     flag |-> FALSE, sig |-> NoSignature, error |-> msg]
Success ==
    [success |-> TRUE, key |-> NullKey, cert |-> NullCert, phrase |-> "",
     flag |-> FALSE, sig |-> NoSignature, error |-> "null"]

\* ------------------------------------------------------ PasswordBasedEngine
Password_doesIdentityExist(st) ==
    [Success EXCEPT !.flag = DB_KEYS.ENCRYPTED_KEY \in StoreKeys(st)]

\* The four-field sealed record createIdentity persists.
SealedEntries(options, secretToUse, rnd) ==
    [k \in SealedKeys |->
        CASE k = DB_KEYS.ENCRYPTED_KEY ->
                AesGcmEncrypt(DeriveKeyMaterial(secretToUse, rnd.salt), rnd.iv,
                              options.keyPem)
          [] k = DB_KEYS.CERTIFICATE -> options.certPem
          [] k = DB_KEYS.SALT -> rnd.salt
          [] OTHER -> rnd.iv]

\* A persistence step that leaves the salt out.
PersistSealed_WithoutSalt(st, entries) ==
    StoreSet(StoreSet(StoreSet(st,
        DB_KEYS.ENCRYPTED_KEY, entries[DB_KEYS.ENCRYPTED_KEY]),
        DB_KEYS.CERTIFICATE, entries[DB_KEYS.CERTIFICATE]),
        DB_KEYS.IV, entries[DB_KEYS.IV])

\* createIdentity's persistence step: setMany on the file store, four sets
\* otherwise.
PersistSealed(st, entries) ==
    IF isNode /\ StoreOffersSetMany
        THEN StoreSetMany(st, entries)
        ELSE StoreSet(StoreSet(StoreSet(StoreSet(st,
                DB_KEYS.ENCRYPTED_KEY, entries[DB_KEYS.ENCRYPTED_KEY]),
                DB_KEYS.CERTIFICATE, entries[DB_KEYS.CERTIFICATE]),
                DB_KEYS.SALT, entries[DB_KEYS.SALT]),
                DB_KEYS.IV, entries[DB_KEYS.IV])

\* PasswordBasedEngine.createIdentity: the Result and the store it leaves.
Password_createIdentity(st, options, rnd) ==
    LET secretToUse == IF options.password # NoPassword
                           THEN options.password ELSE rnd.mnemonic
        written == PersistSealed(st, SealedEntries(options, secretToUse, rnd))
    IN  IF options.password # NoPassword /\ ZxcvbnScore(options.password) < MinScore
            THEN [result |-> Failure("Password is too weak. Please choose a stronger one."),
                  store |-> st]
        ELSE IF options.password # NoPassword
                /\ PasswordLength(options.password) < MinPasswordLength
            THEN [result |-> Failure("The password must be at least 8 characters long."),
                  store |-> st]
        ELSE IF ~ImportableKey(options.keyPem)
            THEN [result |-> Failure("importPKCS8 rejected the key"), store |-> written]
        ELSE [result |-> [Success EXCEPT !.key = ImportPKCS8(options.keyPem),
                                         !.cert = options.certPem,
                                         !.phrase = secretToUse],
              store |-> written]

\* PasswordBasedEngine.unlockIdentity: reads the store, never writes it.
Password_unlockIdentity(st, options) ==
    IF ~(SealedKeys \subseteq StoreKeys(st))
        THEN Failure("Stored identity not found or is incomplete. Cannot unlock.")
    ELSE LET key == DeriveKeyMaterial(options.password, st[DB_KEYS.SALT])
             iv == st[DB_KEYS.IV]
             ct == st[DB_KEYS.ENCRYPTED_KEY]
         IN  IF ~AesGcmDecryptOk(key, iv, ct)
                 THEN Failure("OperationError")
             ELSE IF ~ImportableKey(AesGcmDecrypt(key, iv, ct))
                 THEN Failure("importPKCS8 rejected the key")
             ELSE [Success EXCEPT !.key = ImportPKCS8(AesGcmDecrypt(key, iv, ct)),
                                  !.cert = st[DB_KEYS.CERTIFICATE]]

\* PasswordBasedEngine.deleteIdentity: clear() when the store offers it, the
\* four dels otherwise.
Password_deleteIdentity(st) ==
    [result |-> Success,
     store |-> IF StoreOffersClear
                   THEN StoreClear(st)
                   ELSE StoreDel(StoreDel(StoreDel(StoreDel(st,
                            DB_KEYS.ENCRYPTED_KEY), DB_KEYS.CERTIFICATE),
                            DB_KEYS.SALT), DB_KEYS.IV)]

\* ------------------------------------------------------ HardwareBasedEngine
Hardware_createIdentity(st, options, webAuthnCredentialId, rnd) ==
    LET createResult ==
            Password_createIdentity(st, [options EXCEPT !.password = NoPassword], rnd)
    IN  IF createResult.result.success
            THEN [result |-> createResult.result,
                  store |-> StoreSet(createResult.store, WEBAUTHN_CREDENTIAL_ID_KEY,
                                     webAuthnCredentialId)]
            ELSE createResult

Hardware_doesIdentityExist(st) ==
    [Success EXCEPT !.flag = StoreHas(st, WEBAUTHN_CREDENTIAL_ID_KEY)]

Hardware_getCredentialId(st) ==
    IF StoreHas(st, WEBAUTHN_CREDENTIAL_ID_KEY)
        THEN [Success EXCEPT !.phrase = st[WEBAUTHN_CREDENTIAL_ID_KEY]]
        ELSE Failure("Hardware credential ID not found in storage.")

Hardware_unlockIdentity(st, options) == Password_unlockIdentity(st, options)

Hardware_deleteIdentity(st) ==
    Password_deleteIdentity(StoreDel(st, WEBAUTHN_CREDENTIAL_ID_KEY))

\* ----------------------------------------------- CryptoEngine.performAction
\* Each case yields the Result returned and the engine state it leaves:
\* [result, key (unlockedKey), cert (unlockedCert), store].
EngineOut(result, key, cert, st) ==
    [result |-> result, key |-> key, cert |-> cert, store |-> st]

\* The catch clause of performAction.
CryptoEngineError(msg) == Failure(msg)

Perform_DoesIdentityExist(engineType) ==
    EngineOut(IF engineType = "hardware-based"
                  THEN Hardware_doesIdentityExist(store)
                  ELSE Password_doesIdentityExist(store),
              unlockedKey, unlockedCert, store)

\* An ImportIdentity case that also keeps the certificate in the KeyStore.
Perform_ImportIdentity_Persists(payload) ==
    IF ~ImportableKey(payload.keyPem)
        THEN EngineOut(CryptoEngineError("importPKCS8 rejected the key"),
                       unlockedKey, unlockedCert, store)
        ELSE EngineOut([Success EXCEPT !.cert = payload.certPem],
                       ImportPKCS8(payload.keyPem), payload.certPem,
                       StoreSet(store, DB_KEYS.CERTIFICATE, payload.certPem))

\* A CreateIdentity case that drops the unlocked identity when it fails.
Perform_CreateIdentity_ClearsOnFailure(payload, engineType, rnd) ==
    LET r == IF engineType = "hardware-based"
                 THEN Hardware_createIdentity(store, payload.options,
                                              payload.webAuthnCredentialId, rnd)
                 ELSE Password_createIdentity(store, payload, rnd)
    IN  IF r.result.success
            THEN EngineOut(r.result, r.result.key, r.result.cert, r.store)
            ELSE EngineOut(r.result, NullKey, NullCert, r.store)

\* An ImportIdentity case that sets the key and forgets the certificate.
Perform_ImportIdentity_KeyOnly(payload) ==
    IF ~ImportableKey(payload.keyPem)
        THEN EngineOut(CryptoEngineError("importPKCS8 rejected the key"),
                       unlockedKey, unlockedCert, store)
        ELSE EngineOut([Success EXCEPT !.cert = payload.certPem],
                       ImportPKCS8(payload.keyPem), unlockedCert, store)

Perform_CreateIdentity(payload, engineType, rnd) ==
    LET r == IF engineType = "hardware-based"
                 THEN Hardware_createIdentity(store, payload.options,
                                              payload.webAuthnCredentialId, rnd)
                 ELSE Password_createIdentity(store, payload, rnd)
    IN  IF r.result.success
            THEN EngineOut(r.result, r.result.key, r.result.cert, r.store)
            ELSE EngineOut(r.result, unlockedKey, unlockedCert, r.store)

Perform_ImportIdentity(payload) ==
    IF payload.keyPem = "" \/ payload.certPem = ""
        THEN EngineOut(CryptoEngineError("ImportIdentity requires keyPem and certPem."),
                       unlockedKey, unlockedCert, store)
    ELSE IF ~ImportableKey(payload.keyPem)
        THEN EngineOut(CryptoEngineError("importPKCS8 rejected the key"),
                       unlockedKey, unlockedCert, store)
        ELSE EngineOut([Success EXCEPT !.cert = payload.certPem],
                       ImportPKCS8(payload.keyPem), payload.certPem, store)

\* An UnlockIdentity case that leaves the custodian alone when it fails.
Perform_UnlockIdentity_KeepsState(payload, engineType) ==
    LET result == IF engineType = "hardware-based"
                      THEN Hardware_unlockIdentity(store, payload)
                      ELSE Password_unlockIdentity(store, payload)
    IN  IF result.success
            THEN EngineOut(result, result.key, result.cert, store)
            ELSE EngineOut(result, unlockedKey, unlockedCert, store)

Perform_UnlockIdentity(payload, engineType) ==
    LET result == IF engineType = "hardware-based"
                      THEN Hardware_unlockIdentity(store, payload)
                      ELSE Password_unlockIdentity(store, payload)
    IN  IF result.success
            THEN EngineOut(result, result.key, result.cert, store)
            ELSE EngineOut(result, NullKey, NullCert, store)

\* A DeleteIdentity case that forgets to drop the unlocked key.
Perform_DeleteIdentity_KeepsKey(engineType) ==
    LET r == IF engineType = "hardware-based"
                 THEN Hardware_deleteIdentity(store)
                 ELSE Password_deleteIdentity(store)
    IN  EngineOut(r.result, unlockedKey, unlockedCert, r.store)

Perform_DeleteIdentity(engineType) ==
    LET r == IF engineType = "hardware-based"
                 THEN Hardware_deleteIdentity(store)
                 ELSE Password_deleteIdentity(store)
    IN  EngineOut(r.result, NullKey, unlockedCert, r.store)

Perform_SignPayload(payload) ==
    IF unlockedKey = NullKey
        THEN EngineOut(CryptoEngineError("Cannot sign: No identity is currently unlocked."),
                       unlockedKey, unlockedCert, store)
        ELSE EngineOut([Success EXCEPT !.sig = RawSignature(unlockedKey, payload)],
                       unlockedKey, unlockedCert, store)

Perform_GetHardwareCredentialId(engineType) ==
    IF engineType # "hardware-based"
        THEN EngineOut(CryptoEngineError("GetHardwareCredentialId is only valid for hardware-based engines."),
                       unlockedKey, unlockedCert, store)
        ELSE EngineOut(Hardware_getCredentialId(store), unlockedKey, unlockedCert, store)

\* ---------------------------------------------------------- IdentityService
\* What a public call hands back to its caller. `sign` says whether the value
\* carries the sign capability of an AppIdentity; `key` is the `key` field of
\* the returned object, NullKey when it has none.
Returned(op, mode, password, success, cert, sign, key, phrase, flag, sig, error) ==
    [op |-> op, mode |-> mode, password |-> password,
     success |-> success, cert |-> cert, sign |-> sign, key |-> key,
     phrase |-> phrase, flag |-> flag, sig |-> sig, error |-> error]

ReturnedFailure(op, mode, password, error) ==
    Returned(op, mode, password, FALSE, NullCert, FALSE, NullKey, "", FALSE,
             NoSignature, error)

\* buildActiveIdentity(cert): {cert, sign}.
ReturnedIdentity(op, mode, password, cert, phrase) ==
    Returned(op, mode, password, TRUE, cert, TRUE, NullKey, phrase, FALSE,
             NoSignature, "null")

Commit(out) ==
    /\ unlockedKey' = out.key
    /\ unlockedCert' = out.cert
    /\ store' = out.store

NoSealed == <<>>

\* The history the claims refer to, as left by a call made in the current
\* state: `sealed` is the (certPem, keyPem, secret) of the last successful
\* create when no create or delete followed it; `live` says a successful
\* create has not been followed by a delete; `cleared` says deleteIdentity
\* completed and no create, unlock or import succeeded since; `failedSince`
\* says an unlock failed since the last create or delete; `held` says a key
\* was unlocked when the last call was made.
History(sealed, live, cleared, failedSince) ==
    [sealed |-> sealed, live |-> live, cleared |-> cleared,
     failedSince |-> failedSince, held |-> unlockedKey # NullKey]
SameHistory == History(hist.sealed, hist.live, hist.cleared, hist.failedSince)

\* doesPasswordIdentityExist / doesHardwareIdentityExist
DoesIdentityExist(mode) ==
    LET out == Perform_DoesIdentityExist(mode)
    IN  /\ Commit(out)
        /\ ret' = Returned("doesIdentityExist", mode, NoPassword, out.result.success,
                           NullCert, FALSE, NullKey, "", out.result.flag,
                           NoSignature, out.result.error)
        /\ hist' = SameHistory
        /\ UNCHANGED <<isNode, issued, clientVars, otherVars, utilVars, lateVars>>

DoesPasswordIdentityExist == DoesIdentityExist("password-based")

DoesHardwareIdentityExist == DoesIdentityExist("hardware-based")

CreatePasswordIdentity ==
    \E cred \in Credentials, password \in CreatePasswords \cup {NoPassword},
       rand \in Randoms, mnemonic \in Mnemonics :
        LET certPem == cred.certPem
            keyPem == cred.keyPem
            options == [certPem |-> certPem, keyPem |-> keyPem, password |-> password]
            out == Perform_CreateIdentity(options, "password-based",
                        [salt |-> rand.salt, iv |-> rand.iv, mnemonic |-> mnemonic])
        IN  /\ Commit(out)
            /\ IF out.result.success
                   THEN /\ ret' = ReturnedIdentity("createPasswordIdentity", "password-based",
                                        password, out.result.cert, out.result.phrase)
                        /\ issued' = issued \cup {out.result.cert}
                        /\ hist' = History(<<[certPem |-> certPem, keyPem |-> keyPem,
                                                  secret |-> out.result.phrase]>>,
                                           TRUE, FALSE, FALSE)
                   ELSE /\ ret' = ReturnedFailure("createPasswordIdentity", "password-based",
                                        password, out.result.error)
                        /\ issued' = issued
                        /\ hist' = History(NoSealed, hist.live, hist.cleared, FALSE)
            /\ UNCHANGED <<isNode, clientVars, otherVars, utilVars, lateVars>>

\* An IdentityService that never refuses hardware-based operations.
RefusesHardware_Never == FALSE

\* `if (isNode)` at the head of createHardwareIdentity and verifyBiometrics.
RefusesHardware == isNode

\* createHardwareIdentity: refused on Node; in the browser the WebAuthn
\* registration may fail, and on success the engine's data is spread into the
\* returned object ({...activeIdentity, ...cryptoResult.data}).
CreateHardwareIdentity ==
    \/ /\ RefusesHardware
       /\ ret' = ReturnedFailure("createHardwareIdentity", "hardware-based", NoPassword,
                    "Hardware identity is not supported in this environment.")
       /\ hist' = SameHistory
       /\ UNCHANGED <<isNode, unlockedKey, unlockedCert, store, issued, clientVars, otherVars, utilVars, lateVars>>
    \/ /\ ~RefusesHardware
       /\ ret' = ReturnedFailure("createHardwareIdentity", "hardware-based", NoPassword,
                    "WebAuthn registration failed")
       /\ hist' = SameHistory
       /\ UNCHANGED <<isNode, unlockedKey, unlockedCert, store, issued, clientVars, otherVars, utilVars, lateVars>>
    \/ /\ ~RefusesHardware
       /\ \E cred \in Credentials, credId \in CredentialIds,
             rand \in Randoms, mnemonic \in Mnemonics :
            LET certPem == cred.certPem
                keyPem == cred.keyPem
                options == [certPem |-> certPem, keyPem |-> keyPem, password |-> NoPassword]
                out == Perform_CreateIdentity(
                            [options |-> options, webAuthnCredentialId |-> credId],
                            "hardware-based",
                            [salt |-> rand.salt, iv |-> rand.iv, mnemonic |-> mnemonic])
            IN  /\ Commit(out)
                /\ IF out.result.success
                       THEN /\ ret' = Returned("createHardwareIdentity", "hardware-based",
                                        NoPassword, TRUE, out.result.cert, TRUE,
                                        out.result.key, out.result.phrase, FALSE,
                                        NoSignature, "null")
                            /\ issued' = issued \cup {out.result.cert}
                            /\ hist' = History(<<[certPem |-> certPem, keyPem |-> keyPem,
                                                  secret |-> out.result.phrase]>>,
                                           TRUE, FALSE, FALSE)
                       ELSE /\ ret' = ReturnedFailure("createHardwareIdentity",
                                        "hardware-based", NoPassword, out.result.error)
                            /\ issued' = issued
                            /\ hist' = History(NoSealed, hist.live, hist.cleared, FALSE)
       /\ UNCHANGED <<isNode, clientVars, otherVars, utilVars, lateVars>>

ImportIdentity ==
    \E cred \in Credentials :
        LET out == Perform_ImportIdentity(cred)
        IN  /\ Commit(out)
            /\ IF out.result.success
                   THEN /\ ret' = ReturnedIdentity("importIdentity", "password-based",
                                        NoPassword, out.result.cert, "")
                        /\ issued' = issued \cup {out.result.cert}
                        /\ hist' = History(hist.sealed, hist.live, FALSE, hist.failedSince)
                   ELSE /\ ret' = ReturnedFailure("importIdentity", "password-based",
                                        NoPassword, out.result.error)
                        /\ issued' = issued
                        /\ hist' = SameHistory
            /\ UNCHANGED <<isNode, clientVars, otherVars, utilVars, lateVars>>

\* verifyBiometrics: refused on Node; needs the stored credential id; the
\* WebAuthn authentication itself may fail.
VerifyBiometricsCanPass ==
    /\ ~RefusesHardware
    /\ Perform_GetHardwareCredentialId("hardware-based").result.success

UnlockIdentity ==
    \E password \in Secrets, mode \in {"password-based", "hardware-based"} :
        \/ /\ mode = "hardware-based"
           /\ ret' = ReturnedFailure("unlockIdentity", mode, password,
                        IF RefusesHardware
                            THEN "Hardware identity is not supported in this environment."
                            ELSE "Biometric verification failed")
           /\ hist' = SameHistory
           /\ UNCHANGED <<isNode, unlockedKey, unlockedCert, store, issued, clientVars, otherVars, utilVars, lateVars>>
        \/ /\ mode = "hardware-based" => VerifyBiometricsCanPass
           /\ LET out == Perform_UnlockIdentity([password |-> password], mode)
              IN  /\ Commit(out)
                  /\ IF out.result.success
                         THEN /\ ret' = ReturnedIdentity("unlockIdentity", mode, password,
                                            out.result.cert, "")
                              /\ issued' = issued \cup {out.result.cert}
                              /\ hist' = History(hist.sealed, hist.live, FALSE, hist.failedSince)
                         ELSE /\ ret' = ReturnedFailure("unlockIdentity", mode, password,
                                            out.result.error)
                              /\ issued' = issued
                              /\ hist' = History(hist.sealed, hist.live, hist.cleared, TRUE)
           /\ UNCHANGED <<isNode, clientVars, otherVars, utilVars, lateVars>>

DeleteIdentity ==
    \E mode \in {"password-based", "hardware-based"} :
        LET out == Perform_DeleteIdentity(mode)
        IN  /\ Commit(out)
            /\ ret' = Returned("deleteIdentity", mode, NoPassword, out.result.success,
                               NullCert, FALSE, NullKey, "", FALSE, NoSignature,
                               out.result.error)
            /\ hist' = History(NoSealed, FALSE, TRUE, FALSE)
            /\ UNCHANGED <<isNode, issued, clientVars, otherVars, utilVars, lateVars>>

\* identity.sign(dataToSign) on an AppIdentity built by buildActiveIdentity:
\* a SignPayload request to the engine; a failed Result is thrown.
Sign ==
    \E identity \in issued, dataToSign \in SignPayloads :
        LET out == Perform_SignPayload(dataToSign)
        IN  /\ Commit(out)
            /\ ret' = Returned("sign", "password-based", NoPassword, out.result.success,
                               identity, FALSE, NullKey, "", FALSE, out.result.sig,
                               out.result.error)
            /\ hist' = SameHistory
            /\ UNCHANGED <<isNode, issued, clientVars, otherVars, utilVars, lateVars>>

CustodianNext ==
    \/ DoesPasswordIdentityExist
    \/ DoesHardwareIdentityExist
    \/ CreatePasswordIdentity
    \/ CreateHardwareIdentity
    \/ ImportIdentity
    \/ UnlockIdentity
    \/ DeleteIdentity
    \/ Sign

\* CryptoEngine.performAction called directly, as the worker and the Node
\* path of IdentityService.request call it: the CreateIdentity and
\* DeleteIdentity cases for either engine, in either environment.
PerformAction_CreateIdentity ==
    \E engineType \in {"password-based", "hardware-based"}, cred \in Credentials,
       credId \in CredentialIds, rand \in Randoms, mnemonic \in Mnemonics :
        LET options == [certPem |-> cred.certPem, keyPem |-> cred.keyPem,
                        password |-> NoPassword]
            payload == IF engineType = "hardware-based"
                           THEN [options |-> options, webAuthnCredentialId |-> credId]
                           ELSE options
            out == Perform_CreateIdentity(payload, engineType,
                        [salt |-> rand.salt, iv |-> rand.iv, mnemonic |-> mnemonic])
        IN  /\ Commit(out)
            /\ ret' = Returned("CreateIdentity", engineType, NoPassword,
                               out.result.success, out.result.cert, FALSE, NullKey,
                               out.result.phrase, FALSE, NoSignature, out.result.error)
            /\ UNCHANGED <<isNode, issued, hist, clientVars, otherVars, utilVars, lateVars>>

PerformAction_DeleteIdentity ==
    \E engineType \in {"password-based", "hardware-based"} :
        LET out == Perform_DeleteIdentity(engineType)
        IN  /\ Commit(out)
            /\ ret' = Returned("DeleteIdentity", engineType, NoPassword,
                               out.result.success, NullCert, FALSE, NullKey, "", FALSE,
                               NoSignature, out.result.error)
            /\ UNCHANGED <<isNode, issued, hist, clientVars, otherVars, utilVars, lateVars>>

EngineNext ==
    \/ PerformAction_CreateIdentity
    \/ PerformAction_DeleteIdentity

CustodianInit ==
    /\ isNode \in BOOLEAN
    /\ unlockedKey = NullKey
    /\ unlockedCert = NullCert
    /\ store = EmptyStore
    /\ issued = {}
    /\ ret = [op |-> "none", mode |-> "password-based", password |-> NoPassword,
              success |-> TRUE, cert |-> NullCert, sign |-> FALSE, key |-> NullKey,
              phrase |-> "", flag |-> FALSE, sig |-> NoSignature, error |-> "null"]
    /\ hist = [sealed |-> NoSealed, live |-> FALSE, cleared |-> FALSE,
               failedSince |-> FALSE, held |-> FALSE]

\* ------------------------------------------------- bytes and wire format
\* Strings are sequences of code points, byte arrays sequences of 0..255.
\* TextEncoder.encode: UTF-8 (the model's code points are below 0x800).
RECURSIVE StringToUint8Array(_)
StringToUint8Array(str) ==
    IF str = <<>> THEN <<>>
    ELSE (IF Head(str) < 128
              THEN <<Head(str)>>
              ELSE <<192 + (Head(str) \div 64), 128 + (Head(str) % 64)>>)
         \o StringToUint8Array(Tail(str))

\* TextDecoder.decode: the code points of UTF-8 bytes, U+FFFD for a byte
\* that starts no complete sequence.
RECURSIVE TextDecode(_)
TextDecode(bytes) ==
    IF bytes = <<>> THEN <<>>
    ELSE IF bytes[1] < 128 THEN <<bytes[1]>> \o TextDecode(Tail(bytes))
    ELSE IF bytes[1] >= 192 /\ bytes[1] < 224 /\ Len(bytes) >= 2
            /\ bytes[2] >= 128 /\ bytes[2] < 192
        THEN <<(bytes[1] - 192) * 64 + (bytes[2] - 128)>>
             \o TextDecode(Tail(Tail(bytes)))
    ELSE <<65533>> \o TextDecode(Tail(bytes))

\* The protobuf wire format written by toBinary: a base-128 varint, a
\* length-delimited field (wire type 2), a varint field (wire type 0).
RECURSIVE Varint(_)
Varint(n) == IF n < 128 THEN <<n>> ELSE <<128 + (n % 128)>> \o Varint(n \div 128)
LengthDelimited(no, bytes) == <<no * 8 + 2>> \o Varint(Len(bytes)) \o bytes
\* A singular string or bytes field: left out when empty (proto3).
BytesField(no, bytes) == IF bytes = <<>> THEN <<>> ELSE LengthDelimited(no, bytes)
StringField(no, str) == BytesField(no, StringToUint8Array(str))
\* A message field that was set: written even when the message is empty.
MessageField(no, message) == LengthDelimited(no, message)
\* A singular enum or integer field: left out when zero.
VarintField(no, n) == IF n = 0 THEN <<>> ELSE <<no * 8>> \o Varint(n)
\* A repeated bytes field: one length-delimited entry per element.
RECURSIVE RepeatedBytesField(_, _)
RepeatedBytesField(no, list) ==
    IF list = <<>> THEN <<>>
    ELSE LengthDelimited(no, Head(list)) \o RepeatedBytesField(no, Tail(list))

\* ------------------------------------------------- parser (part_009)
\* Number.toString(16).padStart(2, "0") of each byte, joined.
HexDigit(d) == IF d < 10 THEN 48 + d ELSE 87 + d
RECURSIVE Hex(_)
Hex(bytes) ==
    IF bytes = <<>> THEN <<>>
    ELSE <<HexDigit(Head(bytes) \div 16), HexDigit(Head(bytes) % 16)>> \o Hex(Tail(bytes))

\* JSON.parse skips the white space around a value.
JsonWhitespace == {9, 10, 13, 32}
RECURSIVE TrimLeft(_)
TrimLeft(text) ==
    IF text # <<>> /\ Head(text) \in JsonWhitespace THEN TrimLeft(Tail(text)) ELSE text
RECURSIVE TrimRight(_)
TrimRight(text) ==
    IF text # <<>> /\ text[Len(text)] \in JsonWhitespace
        THEN TrimRight(SubSeq(text, 1, Len(text) - 1)) ELSE text
JsonTrim(text) == TrimRight(TrimLeft(text))

\* The JSON texts the model tells apart: integers without a leading zero,
\* the empty object and the empty array. A parsed value is named by its text
\* without the white space; every other text of the model makes JSON.parse
\* throw.
IsJsonInteger(text) ==
    /\ text # <<>>
    /\ \A i \in DOMAIN text : text[i] \in 48..57
    /\ Len(text) > 1 => text[1] # 48
IsJson(text) ==
    \/ IsJsonInteger(JsonTrim(text))
    \/ JsonTrim(text) \in {<<123, 125>>, <<91, 93>>}

\* new TextDecoder("utf-8", {fatal: true}).decode throws where the lenient
\* decoder writes U+FFFD.
IsUtf8(bytes) == \A i \in DOMAIN TextDecode(bytes) : TextDecode(bytes)[i] # 65533

\* "(binary) 0x"
BinaryPrefix == <<40, 98, 105, 110, 97, 114, 121, 41, 32, 48, 120>>

\* decodeChaincodePayload: null, the parsed JSON, the string, or the marker
\* "(binary) 0x" followed by the hexadecimal digits.
DecodeChaincodePayload(payloadBytes) ==
    IF payloadBytes = <<>> THEN <<"null", <<>>>>
    ELSE IF ~IsUtf8(payloadBytes) THEN <<"string", BinaryPrefix \o Hex(payloadBytes)>>
    ELSE IF IsJson(TextDecode(payloadBytes))
        THEN <<"json", JsonTrim(TextDecode(payloadBytes))>>
    ELSE <<"string", TextDecode(payloadBytes)>>

\* The chaincode's simulation response payloads of the model: "1", "a",
\* and a byte that is no UTF-8.
ResponsePayloads == {<<49>>, <<97>>, <<255>>}

\* The payload of the prepared Envelope that Endorse returns, as Fabric
\* serializes it: Payload{header = 1, data = 2}, data a Transaction{actions =
\* 1} of TransactionAction{payload = 2}, a ChaincodeActionPayload{action = 2}
\* with ChaincodeEndorsedAction{proposal_response_payload = 1}, a
\* ProposalResponsePayload{extension = 2} holding ChaincodeAction{response =
\* 3}, whose Response{status = 1, payload = 3} carries the chaincode's
\* response payload. Headers, read-write sets and endorsements are left
\* empty.
\* The status of a successful simulation is 200.
PeerResponse(payload) == VarintField(1, 200) \o BytesField(3, payload)
ChaincodeAction(payload) == MessageField(3, PeerResponse(payload))
ProposalResponsePayload(payload) == BytesField(2, ChaincodeAction(payload))
ChaincodeEndorsedAction(payload) == BytesField(1, ProposalResponsePayload(payload))
ChaincodeActionPayload(payload) == MessageField(2, ChaincodeEndorsedAction(payload))
TransactionAction(payload) == BytesField(2, ChaincodeActionPayload(payload))
Transaction(payload) == LengthDelimited(1, TransactionAction(payload))
TransactionEnvelope(payload) == MessageField(1, <<>>) \o BytesField(2, Transaction(payload))

\* const simulatedResult = decodeChaincodePayload(transactionEnvelope)
SimulatedResult(t) == DecodeChaincodePayload(TransactionEnvelope(t.response))


\* ------------------------------------------------------------- FabricClient
Nonces == {<<"nonce", i>> : i \in 1..NumNonces}
MspId == "Org1MSP"
ChannelName == "mychannel"
RpcNames == {"Endorse", "Submit", "CommitStatus"}

\* TxValidationCode values a CommitStatus response may carry.
ValidationCodes == {0, 10, 11}
TxValidationCode_VALID == 0
\* TxValidationCode[code]: the enum's reverse mapping.
TxValidationCodeName(code) ==
    CASE code = 0 -> "VALID"
      [] code = 10 -> "ENDORSEMENT_POLICY_FAILURE"
      [] code = 11 -> "MVCC_READ_CONFLICT"
      [] OTHER -> "undefined"

\* createSerializedIdentityBytes(mspId, certPem)
CreateSerializedIdentityBytes(mspId, certPem) == <<"SerializedIdentity", mspId, certPem>>

\* generateTransactionId: hex(sha256(nonce || creatorBytes))
GenerateTransactionId(nonce, creatorBytes) == <<"sha256", nonce, creatorBytes>>

\* Error messages, kept as the sequence of their parts.
CommitFailedMessage(txId, code) ==
    <<<<"text", "Transaction ">>, <<"txId", txId>>,
      <<"text", " failed to commit with status: ">>,
      <<"text", TxValidationCodeName(code)>>, <<"text", " (">>, <<"code", code>>,
      <<"text", ")">>>>
NoPreparedTransactionMessage ==
    <<<<"text", "The Endorse response did not contain a valid prepared transaction.">>>>
ConnectErrorMessage(rpcName) == <<<<"text", "ConnectError">>, <<"text", rpcName>>>>
SignErrorMessage(engineError) ==
    <<<<"text", "CryptoEngineError: ">>, <<"text", engineError>>>>

\* getGroundedError on an Error that is no ConnectError with details: its message.
GetGroundedError(message) == message

\* tryCatch: the Result of a body that returned `data` or threw `message`.
TryCatchOk(txId, result) ==
    [success |-> TRUE, txId |-> txId, result |-> result, error |-> <<>>]
TryCatchErr(message) ==
    [success |-> FALSE, txId |-> <<>>, result |-> <<>>,
     error |-> GetGroundedError(message)]

NoResult == [success |-> FALSE, txId |-> <<>>, result |-> <<>>, error |-> <<>>]
NoTx ==
    [identity |-> NullCert, nonce |-> <<>>, txId |-> <<>>, status |-> <<>>,
     failed |-> <<>>, log |-> <<>>, response |-> <<>>]

ClientIdle ==
    /\ pc = "idle"
    /\ tx = NoTx
    /\ rpc = [r \in RpcNames |-> "none"]
    /\ sac = NoResult

\* An event of the call in flight is appended to its log.
Logged(event) == [tx EXCEPT !.log = Append(@, event)]
\* The first stage that failed is remembered once.
Failed(t, stage, message) ==
    IF t.failed = <<>> THEN [t EXCEPT !.failed = <<stage, message>>] ELSE t

\* identity.sign as called by signFabricSignature.
ClientSign(payload) ==
    LET out == Perform_SignPayload(payload)
    IN  /\ Commit(out)
        /\ ret' = Returned("sign", "password-based", NoPassword, out.result.success,
                           tx.identity, FALSE, NullKey, "", FALSE, out.result.sig,
                           out.result.error)
        /\ hist' = SameHistory
        /\ UNCHANGED <<isNode, issued, otherVars, utilVars, lateVars>>

\* submitAndCommit(params, identity) is called: prepareTransaction starts.
SubmitAndCommit_Call ==
    /\ pc \in {"idle", "done"}
    /\ \E identity \in issued, nonce \in Nonces :
        tx' = [identity |-> identity, nonce |-> nonce,
               txId |-> GenerateTransactionId(nonce,
                            CreateSerializedIdentityBytes(MspId, identity)),
               status |-> <<>>, failed |-> <<>>, log |-> <<>>, response |-> <<>>]
    /\ pc' = "prepare_sign"
    /\ rpc' = [r \in RpcNames |-> "none"]
    /\ sac' = NoResult
    /\ UNCHANGED <<custodianVars, otherVars, utilVars, lateVars>>

\* prepareTransaction: the proposal is signed, then Endorse is issued; a
\* failed signature makes prepareTransaction return an Err, which
\* submitAndCommit throws.
Prepare_Sign ==
    /\ pc = "prepare_sign"
    /\ ClientSign("bytes")
    /\ IF Perform_SignPayload("bytes").result.success
           THEN /\ rpc' = [rpc EXCEPT !["Endorse"] = "inflight"]
                /\ tx' = Logged(<<"Endorse", "issued">>)
                /\ pc' = "endorse"
                /\ sac' = sac
           ELSE /\ rpc' = rpc
                /\ tx' = Failed(tx, "Endorse",
                            SignErrorMessage(Perform_SignPayload("bytes").result.error))
                /\ pc' = "done"
                /\ sac' = TryCatchErr(GetGroundedError(
                            SignErrorMessage(Perform_SignPayload("bytes").result.error)))

\* The Endorse RPC completes: with a prepared transaction, without one, or
\* with a ConnectError.
Endorse_Response ==
    /\ pc = "endorse"
    /\ \/ /\ rpc' = [rpc EXCEPT !["Endorse"] = "ok"]
          /\ \E payload \in ResponsePayloads :
                tx' = [Logged(<<"Endorse", "completed">>) EXCEPT !.response = payload]
          /\ pc' = "submit_sign"
          /\ sac' = sac
       \/ /\ rpc' = [rpc EXCEPT !["Endorse"] = "ok"]
          /\ tx' = Failed(Logged(<<"Endorse", "completed">>), "Endorse",
                          NoPreparedTransactionMessage)
          /\ pc' = "done"
          /\ sac' = TryCatchErr(GetGroundedError(NoPreparedTransactionMessage))
       \/ /\ rpc' = [rpc EXCEPT !["Endorse"] = "failed"]
          /\ tx' = Failed(Logged(<<"Endorse", "completed">>), "Endorse",
                          ConnectErrorMessage("Endorse"))
          /\ pc' = "done"
          /\ sac' = TryCatchErr(GetGroundedError(ConnectErrorMessage("Endorse")))
    /\ UNCHANGED <<custodianVars, otherVars, utilVars, lateVars>>

\* A client that does not await gatewayClient.submit.
PcAfterSubmitIssued_NotAwaited == "commit_sign"

\* submitSignedTransaction awaits gatewayClient.submit before it returns.
PcAfterSubmitIssued == "submit"

\* submitAndCommit awaits submitSignedTransaction and goes on to
\* _waitForCommit; the Result it resolved with is not inspected.
PcAfterSubmitStage(submitSucceeded) == "commit_sign"

\* A _waitForCommit that accepts every validation code.
CommitAccepted_AnyCode(code) == TRUE

\* _waitForCommit accepts the status iff result === TxValidationCode.VALID.
CommitAccepted(code) == code = TxValidationCode_VALID

\* submitSignedTransaction: the prepared payload is signed, then Submit is
\* issued; a failed signature makes it resolve to an Err.
Submit_Sign ==
    /\ pc = "submit_sign"
    /\ ClientSign("bytes")
    /\ IF Perform_SignPayload("bytes").result.success
           THEN /\ rpc' = [rpc EXCEPT !["Submit"] = "inflight"]
                /\ tx' = Logged(<<"Submit", "issued">>)
                /\ pc' = PcAfterSubmitIssued
           ELSE /\ rpc' = rpc
                /\ tx' = Failed(Logged(<<"Submit", "returned">>), "Submit",
                            SignErrorMessage(Perform_SignPayload("bytes").result.error))
                /\ pc' = PcAfterSubmitStage(FALSE)
    /\ sac' = sac

\* The Submit RPC completes, accepted or with a ConnectError, and
\* submitSignedTransaction resolves.
Submit_Response ==
    /\ pc = "submit"
    /\ \/ /\ rpc' = [rpc EXCEPT !["Submit"] = "ok"]
          /\ tx' = [tx EXCEPT !.log = @ \o <<<<"Submit", "completed">>,
                                            <<"Submit", "returned">>>>]
          /\ pc' = PcAfterSubmitStage(TRUE)
       \/ /\ rpc' = [rpc EXCEPT !["Submit"] = "failed"]
          /\ tx' = Failed([tx EXCEPT !.log = @ \o <<<<"Submit", "completed">>,
                                                   <<"Submit", "returned">>>>],
                          "Submit", ConnectErrorMessage("Submit"))
          /\ pc' = PcAfterSubmitStage(FALSE)
    /\ sac' = sac
    /\ UNCHANGED <<custodianVars, otherVars, utilVars, lateVars>>

\* _waitForCommit: the CommitStatusRequest is signed, then CommitStatus is
\* issued; a failed signature is thrown.
Commit_Sign ==
    /\ pc = "commit_sign"
    /\ ClientSign("bytes")
    /\ IF Perform_SignPayload("bytes").result.success
           THEN /\ rpc' = [rpc EXCEPT !["CommitStatus"] = "inflight"]
                /\ tx' = Logged(<<"CommitStatus", "issued">>)
                /\ pc' = "commit"
                /\ sac' = sac
           ELSE /\ rpc' = rpc
                /\ tx' = Failed(tx, "CommitStatus",
                            SignErrorMessage(Perform_SignPayload("bytes").result.error))
                /\ pc' = "done"
                /\ sac' = TryCatchErr(
                            SignErrorMessage(Perform_SignPayload("bytes").result.error))

\* The CommitStatus RPC completes: with a validation code, or with a
\* ConnectError.
Commit_Response ==
    /\ pc = "commit"
    /\ \/ \E code \in ValidationCodes :
            /\ rpc' = [rpc EXCEPT !["CommitStatus"] = "ok"]
            /\ IF CommitAccepted(code)
                   THEN /\ tx' = [Logged(<<"CommitStatus", "completed">>)
                                    EXCEPT !.status = <<code>>]
                        /\ sac' = TryCatchOk(tx.txId, SimulatedResult(tx))
                   ELSE /\ tx' = Failed([Logged(<<"CommitStatus", "completed">>)
                                            EXCEPT !.status = <<code>>],
                                        "CommitStatus", CommitFailedMessage(tx.txId, code))
                        /\ sac' = TryCatchErr(CommitFailedMessage(tx.txId, code))
       \/ /\ rpc' = [rpc EXCEPT !["CommitStatus"] = "failed"]
          /\ tx' = Failed(Logged(<<"CommitStatus", "completed">>), "CommitStatus",
                          ConnectErrorMessage("CommitStatus"))
          /\ sac' = TryCatchErr(ConnectErrorMessage("CommitStatus"))
    /\ pc' = "done"
    /\ UNCHANGED <<custodianVars, otherVars, utilVars, lateVars>>

ClientNext ==
    \/ SubmitAndCommit_Call
    \/ Prepare_Sign
    \/ Endorse_Response
    \/ Submit_Sign
    \/ Submit_Response
    \/ Commit_Sign
    \/ Commit_Response

\* ------------------------------------------------- concurrent sign requests
\* Callers that may each have a SignPayload request in flight.
Callers == 1..NumCallers

NoSigner == [pc |-> "idle", key |-> NullKey, result |-> <<>>]
SignersIdle == signers = [c \in Callers |-> NoSigner]

\* request(SignPayload) reaches performAction: with no unlocked key the case
\* throws and the catch clause answers; otherwise crypto.sign is started on
\* unlockedKey and performAction is suspended at its await.
Request_SignPayload(c) ==
    /\ signers[c].pc = "idle"
    /\ signers' = [signers EXCEPT ![c] =
            IF unlockedKey = NullKey
                THEN [pc |-> "done", key |-> NullKey,
                      result |-> <<Perform_SignPayload("bytes").result>>]
                ELSE [pc |-> "signing", key |-> unlockedKey, result |-> <<>>]]
    /\ UNCHANGED <<custodianVars, clientVars, stream, api, signer, utilVars, lateVars>>

\* crypto.sign resolves and performAction returns the signature.
SignPayload_Resolves(c) ==
    /\ signers[c].pc = "signing"
    /\ signers' = [signers EXCEPT ![c] =
            [pc |-> "done", key |-> @.key,
             result |-> <<[Success EXCEPT !.sig = RawSignature(signers[c].key, "bytes")]>>]]
    /\ UNCHANGED <<custodianVars, clientVars, stream, api, signer, utilVars, lateVars>>

\* The caller has its Result; it may call sign again.
Caller_Returns(c) ==
    /\ signers[c].pc = "done"
    /\ signers' = [signers EXCEPT ![c] = NoSigner]
    /\ UNCHANGED <<custodianVars, clientVars, stream, api, signer, utilVars, lateVars>>


\* ------------------------------------------------------------- EventService
\* The errors an event stream may meet, by the `name` and `message` they carry.
AbortRejection == [name |-> "Error", message |-> "AbortError"]
ConnectionFailed ==
    [name |-> "Error", message |-> "Failed to establish WebSocket connection."]
ClosedUnexpectedly == [name |-> "Error", message |-> "WebSocket closed unexpectedly"]
SigningFailed == [name |-> "Error", message |-> "CryptoEngineError"]
\* What the gRPC stream rejects with when its signal is aborted, and when the
\* transport fails.
RpcCanceled == [name |-> "ConnectError", message |-> "canceled"]
RpcFailed == [name |-> "ConnectError", message |-> "unavailable"]

FrameTypes == {"filteredBlock", "status"}

NoStream ==
    [kind |-> "none", pc |-> "idle", aborted |-> FALSE, socket |-> "none",
     count |-> 0, arrived |-> <<>>, yielded |-> <<>>, outcome |-> "none",
     error |-> <<>>, cancelledAtEnd |-> FALSE,
     closeCalls |-> <<>>, peerClose |-> <<>>, left |-> FALSE]
\* closeCalls: the arguments of each socket.close the program made (<<>> for
\* close(), <<1000>> for close(1000, ...)); peerClose: the code of the close
\* event received from the peer; left: the consumer left its loop.
StreamIdle == stream = NoStream

\* A catch clause that lets through everything but errors named AbortError.
Swallowed_ByNameOnly(aborted, error) == error.name = "AbortError"

\* The catch clause of both generators: the error is dropped when
\* signal.aborted || error.name === "AbortError".
Swallowed(aborted, error) == aborted \/ error.name = "AbortError"

\* The finally clause of listenToBlockEvents: close the socket when it is
\* OPEN or CONNECTING.
SocketAfterFinally(socket) ==
    IF socket \in {"OPEN", "CONNECTING"} THEN "CLOSING" ELSE socket

CloseCallsAfterFinally(socket, calls) ==
    IF socket \in {"OPEN", "CONNECTING"} THEN Append(calls, <<1000>>) ELSE calls

\* The generator ends: normally, on an error met inside its try block, or on
\* an error met before it.
Ended(s, error, insideTry) ==
    [s EXCEPT !.pc = "done",
              !.socket = SocketAfterFinally(@),
              !.closeCalls = CloseCallsAfterFinally(s.socket, @),
              !.error = error,
              !.cancelledAtEnd = s.aborted,
              !.outcome = IF error = <<>> \/ (insideTry /\ Swallowed(s.aborted, error[1]))
                              THEN "returned" ELSE "threw"]

\* listenToBlockEvents / listenToChaincodeEvents is called and first pulled.
Listen ==
    /\ stream.pc = "idle"
    /\ \E kind \in {"block", "chaincode"} :
        stream' = [NoStream EXCEPT !.kind = kind, !.pc = "signing"]
    /\ UNCHANGED <<custodianVars, clientVars, signers, api, signer, utilVars, lateVars>>

\* abortController.abort(): the flag is set and the abort listeners run. One
\* is registered while waitForSocketOpen or waitForSocketMessage is pending
\* and while the gRPC stream is awaited; none while the generator is
\* suspended at a yield or signing.
AfterAbort(old) ==
    LET s == [old EXCEPT !.aborted = TRUE]
    IN  CASE old.pc = "connecting" ->
                Ended([s EXCEPT !.socket = "CLOSING",
                                !.closeCalls = Append(@, <<>>)],
                      <<AbortRejection>>, TRUE)
          [] old.pc = "waiting" -> Ended(s, <<AbortRejection>>, TRUE)
          [] old.pc = "streaming" -> Ended(s, <<RpcCanceled>>, TRUE)
          [] OTHER -> s

Abort ==
    /\ stream.pc # "idle"
    /\ ~stream.aborted
    /\ stream' = AfterAbort(stream)
    /\ UNCHANGED <<custodianVars, clientVars, signers, api, signer, utilVars, lateVars>>

\* createSignedDeliverRequest settles (before the try block); on success the
\* socket is created and waitForSocketOpen is entered, which rejects at once
\* when the signal is already aborted.
Deliver_SignDone ==
    /\ stream.kind = "block"
    /\ stream.pc = "signing"
    /\ \/ stream' = Ended(stream, <<SigningFailed>>, FALSE)
       \/ stream' =
            IF stream.aborted
                THEN Ended([stream EXCEPT !.socket = "CONNECTING"], <<AbortRejection>>, TRUE)
                ELSE [stream EXCEPT !.socket = "CONNECTING", !.pc = "connecting"]
    /\ UNCHANGED <<custodianVars, clientVars, signers, api, signer, utilVars, lateVars>>

\* The socket opens: the request is sent and the first waitForSocketMessage
\* is entered.
Socket_Open ==
    /\ stream.pc = "connecting"
    /\ stream' = [stream EXCEPT !.socket = "OPEN", !.pc = "waiting"]
    /\ UNCHANGED <<custodianVars, clientVars, signers, api, signer, utilVars, lateVars>>

\* The connection fails: waitForSocketOpen rejects.
Socket_Error ==
    /\ stream.pc = "connecting"
    /\ stream' = Ended([stream EXCEPT !.socket = "CLOSED"], <<ConnectionFailed>>, TRUE)
    /\ UNCHANGED <<custodianVars, clientVars, signers, api, signer, utilVars, lateVars>>

\* A frame arrives on the open socket. The `message` listener of a pending
\* waitForSocketMessage resolves it: a FilteredBlock is yielded, a status
\* frame is logged and the loop waits again. With no waitForSocketMessage
\* pending (the generator is suspended at a yield) only listeners of promises
\* already settled are left, and the frame goes to no one.
Socket_Message ==
    /\ stream.kind = "block"
    /\ stream.socket = "OPEN"
    /\ stream.pc \in {"waiting", "yielded"}
    /\ stream.count < MaxFrames
    /\ \E type \in FrameTypes :
        LET frame == <<type, stream.count + 1>>
            s == [stream EXCEPT !.count = @ + 1,
                                !.arrived = IF stream.aborted THEN @ ELSE Append(@, frame)]
        IN  stream' =
                IF stream.pc = "waiting" /\ type = "filteredBlock"
                    THEN [s EXCEPT !.pc = "yielded", !.yielded = Append(@, frame)]
                    ELSE s
    /\ UNCHANGED <<custodianVars, clientVars, signers, api, signer, utilVars, lateVars>>

\* The peer closes the socket, normally (1000) or not (1006): the onclose
\* handler set by the last waitForSocketMessage runs, whatever the code. It
\* rejects that call's promise when it is still pending, and does nothing
\* when the promise was settled by a message before.
Socket_Close ==
    /\ stream.kind = "block"
    /\ stream.socket = "OPEN"
    /\ stream.pc \in {"waiting", "yielded"}
    /\ \E code \in {1000, 1006} :
        LET s == [stream EXCEPT !.socket = "CLOSED", !.peerClose = <<code>>]
        IN  stream' = IF stream.pc = "waiting"
                          THEN Ended(s, <<ClosedUnexpectedly>>, TRUE)
                          ELSE s
    /\ UNCHANGED <<custodianVars, clientVars, signers, api, signer, utilVars, lateVars>>

\* createSignedChaincodeEventsRequest settles (inside the try block); on
\* success the gRPC stream is opened with the signal and awaited.
Chaincode_SignDone ==
    /\ stream.kind = "chaincode"
    /\ stream.pc = "signing"
    /\ \/ stream' = Ended(stream, <<SigningFailed>>, TRUE)
       \/ stream' =
            IF stream.aborted
                THEN Ended(stream, <<RpcCanceled>>, TRUE)
                ELSE [stream EXCEPT !.pc = "streaming"]
    /\ UNCHANGED <<custodianVars, clientVars, signers, api, signer, utilVars, lateVars>>

\* The gRPC stream delivers a response, ends, or fails.
Chaincode_Response ==
    /\ stream.pc = "streaming"
    /\ stream.count < MaxFrames
    /\ LET frame == <<"chaincodeEvents", stream.count + 1>>
       IN  stream' = [stream EXCEPT !.count = @ + 1, !.pc = "yielded",
                                    !.arrived = Append(@, frame),
                                    !.yielded = Append(@, frame)]
    /\ UNCHANGED <<custodianVars, clientVars, signers, api, signer, utilVars, lateVars>>

Chaincode_End ==
    /\ stream.pc = "streaming"
    /\ \/ stream' = Ended(stream, <<>>, TRUE)
       \/ stream' = Ended(stream, <<RpcFailed>>, TRUE)
    /\ UNCHANGED <<custodianVars, clientVars, signers, api, signer, utilVars, lateVars>>

\* The consumer asks for the next value: the generator resumes after its
\* yield and reads signal.aborted.
AfterPull(s) ==
    IF s.kind = "block"
        THEN IF s.aborted
                 THEN Ended(s, <<>>, TRUE)
                 ELSE [s EXCEPT !.pc = "waiting"]
        ELSE IF s.aborted
                 THEN Ended(s, <<RpcCanceled>>, TRUE)
                 ELSE [s EXCEPT !.pc = "streaming"]

Consumer_Next ==
    /\ stream.pc = "yielded"
    /\ stream' = AfterPull(stream)
    /\ UNCHANGED <<custodianVars, clientVars, signers, api, signer, utilVars, lateVars>>

\* The consumer leaves its loop: generator.return() runs the finally clause.
Consumer_Return ==
    /\ stream.pc = "yielded"
    /\ stream' = Ended([stream EXCEPT !.left = TRUE], <<>>, TRUE)
    /\ UNCHANGED <<custodianVars, clientVars, signers, api, signer, utilVars, lateVars>>

\* What the generator and its transport do on their own.
StreamProgress ==
    \/ Deliver_SignDone
    \/ Socket_Open
    \/ Socket_Error
    \/ Chaincode_SignDone
    \/ Chaincode_End

StreamNext ==
    \/ Listen
    \/ Abort
    \/ Deliver_SignDone
    \/ Socket_Open
    \/ Socket_Error
    \/ Socket_Message
    \/ Socket_Close
    \/ Chaincode_SignDone
    \/ Chaincode_Response
    \/ Chaincode_End
    \/ Consumer_Next
    \/ Consumer_Return

\* ------------------------------------------- the public boundary (Result<T>)
\* What the body of an operation hands to its boundary: a value it returned or
\* an error it threw. Messages are sequences of their parts.
BodyReturned(value) == [threw |-> FALSE, value |-> value]
BodyThrew(message) == [threw |-> TRUE, value |-> message]

\* Result<T>: null is <<>>.
ResultOk(data) == [success |-> TRUE, data |-> data, error |-> <<>>]
ResultErr(error) == [success |-> FALSE, data |-> <<>>, error |-> error]

\* What the caller of a public operation observes when its promise settles.
Resolved(result) == [kind |-> "returned", result |-> result, thrown |-> <<>>]
Rejected(message) == [kind |-> "thrown", result |-> ResultErr(<<>>), thrown |-> message]
Pending == [kind |-> "pending", result |-> ResultErr(<<>>), thrown |-> <<>>]

\* A body awaited with no handler around it.
Unguarded(out, prefix) ==
    IF out.threw THEN Rejected(out.value) ELSE Resolved(ResultOk(out.value))

\* tryCatch(promiseFn, errorFn): errorFn prepends `prefix` to the message
\* (getGroundedError prepends nothing).
TryCatch(out, prefix) ==
    IF out.threw
    THEN Resolved(ResultErr(prefix \o GetGroundedError(out.value)))
    ELSE Resolved(ResultOk(out.value))

\* One awaited step of a body: the stage it belongs to and what is awaited.
Step(stage, kind) == [stage |-> stage, kind |-> kind]

GatewayRpcs == {"Evaluate", "Endorse", "Submit", "CommitStatus"}

EvaluateTransaction_Body_AlsoEndorses ==
    <<Step("evaluate", "sign"), Step("evaluate", "Endorse"),
      Step("evaluate", "Evaluate")>>

EvaluateTransaction_Body ==
    <<Step("evaluate", "sign"), Step("evaluate", "Evaluate")>>

PrepareTransaction_Body ==
    <<Step("prepare", "sign"), Step("prepare", "Endorse")>>

SubmitSignedTransaction_Body ==
    <<Step("submit", "sign"), Step("submit", "Submit")>>

WaitForCommit_Body ==
    <<Step("commit", "sign"), Step("commit", "CommitStatus")>>

SubmitAndCommit_Body ==
    PrepareTransaction_Body \o SubmitSignedTransaction_Body \o WaitForCommit_Body

TransactionOps ==
    {"evaluateTransaction", "prepareTransaction", "submitSignedTransaction",
     "submitAndCommit"}

EngineTypes == {"password-based", "hardware-based"}

\* IdentityService operations, with the mode they run in.
IdentityOps ==
    {<<"doesPasswordIdentityExist", "password-based">>,
     <<"doesHardwareIdentityExist", "hardware-based">>,
     <<"createPasswordIdentity", "password-based">>,
     <<"importIdentity", "password-based">>,
     <<"createHardwareIdentity", "hardware-based">>,
     <<"verifyBiometrics", "hardware-based">>}
    \cup {<<"unlockIdentity", m>> : m \in EngineTypes}
    \cup {<<"deleteIdentity", m>> : m \in EngineTypes}

VerifyBiometrics_Body ==
    <<Step("biometrics", "request"), Step("biometrics", "webauthn")>>

\* The awaited steps of an operation, in order.
Body(op, mode) ==
    CASE op = "evaluateTransaction" -> EvaluateTransaction_Body
      [] op = "prepareTransaction" -> PrepareTransaction_Body
      [] op = "submitSignedTransaction" -> SubmitSignedTransaction_Body
      [] op = "submitAndCommit" -> SubmitAndCommit_Body
      [] op = "createHardwareIdentity" ->
            <<Step("identity", "webauthn"), Step("identity", "request")>>
      [] op = "verifyBiometrics" -> VerifyBiometrics_Body
      [] op = "unlockIdentity" /\ mode = "hardware-based" ->
            VerifyBiometrics_Body \o <<Step("identity", "request")>>
      [] OTHER -> <<Step("identity", "request")>>

\* Operations that answer without awaiting anything when there is no browser.
NeedsBrowser(op, mode) ==
    \/ op \in {"createHardwareIdentity", "verifyBiometrics"}
    \/ op = "unlockIdentity" /\ mode = "hardware-based"

HardwareNotSupported ==
    <<"Hardware identity is not supported in this environment.">>

\* The text the boundary of a stage puts before the message of a caught error.
ErrorPrefix(op, stage) ==
    CASE stage = "biometrics" -> <<"Biometric verification failed: ">>
      [] op = "createHardwareIdentity" -> <<"WebAuthn registration failed: ">>
      [] OTHER -> <<>>

\* The stages whose body runs inside tryCatch: every FabricClient method,
\* createHardwareIdentity and verifyBiometrics. The other IdentityService
\* operations hand on the Result that request() resolved with.
UsesTryCatch(op, stage) ==
    \/ op \in TransactionOps
    \/ op = "createHardwareIdentity"
    \/ stage = "biometrics"

\* The catch clause of performAction (and of the worker's onmessage): what
\* request() resolves with when the engine or the store failed.
PerformAction_Catch(message) == ResultErr(<<"CryptoEngineError: ">> \o message)

\* What can go wrong at an awaited step: identity.sign throws the custodian's
\* error, WebAuthn is refused, the engine or the store fails under request(),
\* the transport fails or the answer of the gateway is one the body throws on.
StepFailures(kind) ==
    CASE kind = "sign" ->
            {PerformAction_Catch(<<"Cannot sign: No identity is currently unlocked.">>).error}
      [] kind = "request" -> {<<"store">>, <<"custodian">>}
      [] kind = "webauthn" -> {<<"NotAllowedError">>}
      [] kind = "Submit" -> {<<"ConnectError", kind>>}
      [] OTHER -> {<<"ConnectError", kind>>, <<"rejected", kind>>}

\* The data of a successful Result; deleteIdentity is a Result<void>.
DataOf(op) == IF op = "deleteIdentity" THEN <<"undefined">> ELSE <<"data", op>>

NoCall ==
    [op |-> "none", mode |-> "password-based", at |-> 0, rpcs |-> <<>>,
     settled |-> Pending]

ApiIdle == api = [wsUrl |-> FALSE, client |-> "none", call |-> NoCall]

\* new EventService(config)
EventService_New(wsUrl) == IF wsUrl THEN "constructed" ELSE "threw"

\* new FabricClient(config): the transport, the gateway client, then the
\* EventService.
FabricClient_New ==
    /\ api.client = "none"
    /\ \E wsUrl \in BOOLEAN :
        api' = [api EXCEPT !.wsUrl = wsUrl, !.client = EventService_New(wsUrl)]
    /\ UNCHANGED <<custodianVars, clientVars, signers, stream, signer, utilVars, lateVars>>

CallIdle == api.call.at = 0

\* A transaction operation is called on the client.
Transaction_Call ==
    /\ api.client = "constructed"
    /\ CallIdle
    /\ \E op \in TransactionOps :
        api' = [api EXCEPT !.call = [op |-> op, mode |-> "password-based", at |-> 1,
                                     rpcs |-> <<>>, settled |-> Pending]]
    /\ UNCHANGED <<custodianVars, clientVars, signers, stream, signer, utilVars, lateVars>>

\* An IdentityService operation is called.
Identity_Call ==
    /\ CallIdle
    /\ \E o \in IdentityOps :
        api' = [api EXCEPT !.call =
                    IF isNode /\ NeedsBrowser(o[1], o[2])
                    THEN [op |-> o[1], mode |-> o[2], at |-> 0, rpcs |-> <<>>,
                          settled |-> Resolved(ResultErr(HardwareNotSupported))]
                    ELSE [op |-> o[1], mode |-> o[2], at |-> 1, rpcs |-> <<>>,
                          settled |-> Pending]]
    /\ UNCHANGED <<custodianVars, clientVars, signers, stream, signer, utilVars, lateVars>>

\* The call after step `i` of its body went well: the request of the next
\* step is issued, or the body returns.
Advance(c, i) ==
    LET body == Body(c.op, c.mode)
    IN  IF i < Len(body)
        THEN [c EXCEPT !.at = i + 1,
                       !.rpcs = IF body[i + 1].kind \in GatewayRpcs
                                THEN Append(@, body[i + 1].kind) ELSE @]
        ELSE [c EXCEPT !.at = 0,
                       !.settled =
                           IF UsesTryCatch(c.op, body[i].stage)
                           THEN TryCatch(BodyReturned(DataOf(c.op)),
                                         ErrorPrefix(c.op, body[i].stage))
                           ELSE Resolved(ResultOk(DataOf(c.op)))]

\* The first step after `i` that belongs to another stage, 0 if none.
NextStage(body, i) ==
    LET later == {j \in (i + 1)..Len(body) : body[j].stage # body[i].stage}
    IN  IF later = {} THEN 0 ELSE CHOOSE j \in later : \A k \in later : j <= k

\* The call after step `i` of its body failed with `message`. The Result of
\* submitSignedTransaction is not looked at by submitAndCommit; a failed
\* verifyBiometrics ends unlockIdentity with its Result.
Fail(c, i, message) ==
    LET body == Body(c.op, c.mode)
        stage == body[i].stage
        error == IF body[i].kind = "request"
                 THEN PerformAction_Catch(message).error ELSE message
    IN  IF c.op = "submitAndCommit" /\ stage = "submit"
        THEN [c EXCEPT !.at = NextStage(body, i)]
        ELSE [c EXCEPT !.at = 0,
                       !.settled =
                           IF UsesTryCatch(c.op, stage)
                           THEN TryCatch(BodyThrew(error), ErrorPrefix(c.op, stage))
                           ELSE Resolved(PerformAction_Catch(message))]

\* The awaited step settles, well or not.
Step_Settles ==
    /\ ~CallIdle
    /\ LET c == api.call
           i == c.at
           kind == Body(c.op, c.mode)[i].kind
       IN  \/ api' = [api EXCEPT !.call = Advance(c, i)]
           \/ \E message \in StepFailures(kind) :
                api' = [api EXCEPT !.call = Fail(c, i, message)]
    /\ UNCHANGED <<custodianVars, clientVars, signers, stream, signer, utilVars, lateVars>>

ApiNext ==
    \/ FabricClient_New
    \/ Transaction_Call
    \/ Identity_Call
    \/ Step_Settles

\* ------------------------------------------------------- crypto/signing.ts
\* The order of the curve and half of it. The model keeps the shape of the
\* P-256 order (odd, top byte 0xff) at ComponentLen bytes per component.
N == 256 ^ ComponentLen - 15
HALF_N == N \div 2

\* new BN(bytes): the big-endian value of a byte array.
RECURSIVE BN(_)
BN(bytes) ==
    IF bytes = <<>> THEN 0
    ELSE BN(SubSeq(bytes, 1, Len(bytes) - 1)) * 256 + bytes[Len(bytes)]

\* bn.toArray("be", length): the magnitude, big-endian, padded to `length`.
RECURSIVE ToArray(_, _)
ToArray(n, length) ==
    LET magnitude == IF n < 0 THEN 0 - n ELSE n
    IN  IF length = 0 THEN <<>>
        ELSE Append(ToArray(magnitude \div 256, length - 1), magnitude % 256)

\* The bytes a raw signature is made of in the model, and two components at
\* the boundary of the low-S rule.
Components ==
    {ToArray(BN(b), ComponentLen) : b \in [1..ComponentLen -> SampleBytes]}
    \cup {ToArray(HALF_N, ComponentLen), ToArray(HALF_N + 1, ComponentLen)}
RawSignatures == {r \o s : r \in Components, s \in Components}

PreventMalleability_Unchanged(signature) == signature

PreventMalleability(signature) ==
    LET r == SubSeq(signature, 1, Len(signature) \div 2)
        s == SubSeq(signature, Len(signature) \div 2 + 1, Len(signature))
        sBN == BN(s)
    IN  IF sBN > HALF_N THEN r \o ToArray(N - sBN, ComponentLen) ELSE r \o s

\* while (x.length > 1 && x[0] === 0 && x[1] < 0x80) x = x.slice(1)
RECURSIVE StripPadding(_)
StripPadding(x) ==
    IF Len(x) > 1 /\ x[1] = 0 /\ x[2] < 128 THEN StripPadding(Tail(x)) ELSE x

PositiveInteger_Unpadded(x) == x

\* if (x[0] >= 0x80) x = [0, ...x]
PositiveInteger(x) == IF x[1] >= 128 THEN <<0>> \o x ELSE x

\* Elements of a Uint8Array are kept modulo 256.
Uint8(n) == n % 256

RsToDer(rs) ==
    LET n == Len(rs) \div 2
        r == PositiveInteger(StripPadding(SubSeq(rs, 1, n)))
        s == PositiveInteger(StripPadding(SubSeq(rs, n + 1, Len(rs))))
        encoded == <<2, Uint8(Len(r))>> \o r \o <<2, Uint8(Len(s))>> \o s
    IN  <<48, Uint8(Len(encoded))>> \o encoded

\* signFabricSignature once identity.sign has resolved with rawSignature.
SignFabricSignature(rawSignature) == RsToDer(PreventMalleability(rawSignature))

SignEnvelope_Raw(rawSignature) == rawSignature

SignEnvelope(rawSignature) == SignFabricSignature(rawSignature)

\* The outgoing messages that carry a signature.
MessageKinds ==
    {"EvaluateProposal", "EndorseProposal", "SubmitEnvelope",
     "CommitStatusRequest", "ChaincodeEventsRequest", "DeliverEnvelope"}

\* The signature each builder puts in its message.
SignatureFor(kind, rawSignature) ==
    CASE kind = "DeliverEnvelope" -> SignEnvelope(rawSignature)
      [] OTHER -> SignFabricSignature(rawSignature)

NoMessage == [pc |-> "idle", kind |-> "none", raw |-> <<>>, signature |-> <<>>]

SignerIdle == signer = NoMessage

\* A message is built and its bytes are handed to identity.sign.
Message_Sign ==
    /\ signer.pc \in {"idle", "sent"}
    /\ \E kind \in MessageKinds :
        signer' = [pc |-> "signing", kind |-> kind, raw |-> <<>>, signature |-> <<>>]
    /\ UNCHANGED <<custodianVars, clientVars, signers, stream, api, utilVars, lateVars>>

\* identity.sign resolves with the custodian's raw signature; the signature
\* is normalized, encoded and placed in the message, which is sent.
Message_Signed ==
    /\ signer.pc = "signing"
    /\ \E rawSignature \in RawSignatures :
        signer' = [signer EXCEPT !.pc = "sent", !.raw = rawSignature,
                                 !.signature = SignatureFor(signer.kind, rawSignature)]
    /\ UNCHANGED <<custodianVars, clientVars, signers, stream, api, utilVars, lateVars>>

SignerNext ==
    \/ Message_Sign
    \/ Message_Signed

\* ----------------------------------------------------- protobuf/builder.ts
\* A caller's argument: a string or a Uint8Array.
StringArg(str) == <<"string", str>>
BytesArg(bytes) == <<"Uint8Array", bytes>>

\* args.forEach(arg => argsAsBytes.push(typeof arg === "string" ? encode(arg) : arg))
RECURSIVE EncodedArgs(_)
EncodedArgs(args) ==
    IF args = <<>> THEN <<>>
    ELSE <<IF Head(args)[1] = "string"
               THEN StringToUint8Array(Head(args)[2]) ELSE Head(args)[2]>>
         \o EncodedArgs(Tail(args))

ArgsAsBytes_FunctionNameLast(params) ==
    EncodedArgs(params.args) \o <<StringToUint8Array(params.functionName)>>

\* [functionName, ...(params.args || [])] as bytes; absent args are <<>>.
ArgsAsBytes(params) ==
    <<StringToUint8Array(params.functionName)>> \o EncodedArgs(params.args)

\* ChaincodeID{name = 2}
ChaincodeID(name) == StringField(2, name)

\* ChaincodeSpec_Type.GOLANG and HeaderType.ENDORSER_TRANSACTION
ChaincodeSpec_Type_GOLANG == 1
HeaderType_ENDORSER_TRANSACTION == 3

BuildProposalPayload(params, txId, creatorBytes, nonce) ==
    LET ccId == ChaincodeID(params.chaincodeName)
        \* ChaincodeInput{args = 1}
        ccInput == RepeatedBytesField(1, ArgsAsBytes(params))
        \* ChaincodeSpec{type = 1, chaincode_id = 2, input = 3}
        ccSpec == VarintField(1, ChaincodeSpec_Type_GOLANG)
                      \o MessageField(2, ccId) \o MessageField(3, ccInput)
        \* ChaincodeInvocationSpec{chaincode_spec = 1}
        ccInvocationSpec == MessageField(1, ccSpec)
        \* ChaincodeProposalPayload{input = 1}
        ccProposalPayload == BytesField(1, ccInvocationSpec)
        \* ChaincodeHeaderExtension{chaincode_id = 2}
        ccHeaderExtension == MessageField(2, ccId)
        \* ChannelHeader{type = 1, version = 2, channel_id = 4, tx_id = 5,
        \*               epoch = 6, extension = 7}
        channelHeader == VarintField(1, HeaderType_ENDORSER_TRANSACTION)
                             \o VarintField(2, 1)
                             \o StringField(4, params.channelName)
                             \o StringField(5, txId)
                             \o VarintField(6, 0)
                             \o BytesField(7, ccHeaderExtension)
        \* SignatureHeader{creator = 1, nonce = 2}
        signatureHeader == BytesField(1, creatorBytes) \o BytesField(2, nonce)
        \* Header{channel_header = 1, signature_header = 2}
        header == BytesField(1, channelHeader) \o BytesField(2, signatureHeader)
        \* Proposal{header = 1, payload = 2}
    IN  BytesField(1, header) \o BytesField(2, ccProposalPayload)

\* The inputs of the model: names with one- and two-byte characters, an
\* empty string, byte arrays with a zero and with a byte above 0x7f.
SampleStrings == {<<>>, <<97>>, <<233, 98>>}
SampleByteArrays == {<<>>, <<0, 255>>}
SampleArgs ==
    {StringArg(str) : str \in SampleStrings} \cup {BytesArg(b) : b \in SampleByteArrays}
RECURSIVE ArgLists(_)
ArgLists(n) ==
    IF n = 0 THEN {<<>>}
    ELSE ArgLists(n - 1) \cup {Append(l, a) : l \in {x \in ArgLists(n - 1) : Len(x) = n - 1},
                                              a \in SampleArgs}

NoProposal ==
    [built |-> FALSE,
     params |-> [channelName |-> <<>>, chaincodeName |-> <<>>, functionName |-> <<>>,
                 args |-> <<>>],
     txId |-> <<>>, creatorBytes |-> <<>>, nonce |-> <<>>, bytes |-> <<>>]

ProposalIdle == proposal = NoProposal

\* buildProposalPayload(params, txId, creatorBytes, nonce) is called.
BuildProposalPayload_Call ==
    /\ ~proposal.built
    /\ \E channelName \in {<<>>, <<99, 104>>}, chaincodeName \in {<<98>>, <<233>>},
          functionName \in SampleStrings \ {<<>>}, args \in ArgLists(MaxArgs),
          txId \in {<<48, 102>>}, creatorBytes \in {<<10, 1, 77>>},
          nonce \in {<<7, 200>>} :
        LET params == [channelName |-> channelName, chaincodeName |-> chaincodeName,
                       functionName |-> functionName, args |-> args]
        IN  proposal' = [built |-> TRUE, params |-> params, txId |-> txId,
                         creatorBytes |-> creatorBytes, nonce |-> nonce,
                         bytes |-> BuildProposalPayload(params, txId, creatorBytes, nonce)]
    /\ UNCHANGED <<custodianVars, clientVars, otherVars, seek, file, grounded, persist, lateVars>>

ProposalNext == BuildProposalPayload_Call

\* --------------------------------------------- protobuf/deliver-builder.ts
\* A block number as a caller can pass it: absent, a number (the type
\* BlockEventParams declares) or a bigint.
Undefined == <<"undefined", 0>>
NumberValue(n) == <<"number", n>>
BigIntValue(n) == <<"bigint", n>>
BlockNumbers ==
    {Undefined} \cup {NumberValue(n) : n \in 0..MaxBlock}
                \cup {BigIntValue(n) : n \in 0..MaxBlock}

\* SeekPosition: {newest} or {specified: number}.
SeekNewest == <<"newest", <<>>>>
SeekSpecified(number) == <<"specified", <<number>>>>

\* protoInt64.parse(Number.MAX_SAFE_INTEGER.toString())
MAX_SAFE_INTEGER == "9007199254740991"

\* typeof params.startBlock === "bigint" ? specified(startBlock) : newest
StartPosition(startBlock) ==
    IF startBlock[1] = "bigint" THEN SeekSpecified(startBlock[2]) ELSE SeekNewest

StopPosition == SeekSpecified(MAX_SAFE_INTEGER)

NoSeek ==
    [pc |-> "idle", startBlock |-> Undefined, stopBlock |-> Undefined,
     start |-> SeekNewest, stop |-> SeekNewest]

SeekIdle == seek = NoSeek

\* createSignedDeliverRequest(params) is called and builds the payload; the
\* envelope exists once signEnvelope has resolved.
CreateSignedDeliverRequest_Call ==
    /\ seek.pc = "idle"
    /\ \E startBlock \in BlockNumbers,
          stopBlock \in {b \in BlockNumbers : b[1] # "bigint"} :
        seek' = [pc |-> "signing", startBlock |-> startBlock, stopBlock |-> stopBlock,
                 start |-> StartPosition(startBlock), stop |-> StopPosition]
    /\ UNCHANGED <<custodianVars, clientVars, otherVars, proposal, file, grounded, persist, lateVars>>

\* signEnvelope resolves and the Envelope is returned, or it rejects.
CreateSignedDeliverRequest_Signed ==
    /\ seek.pc = "signing"
    /\ \E signed \in BOOLEAN :
        seek' = [seek EXCEPT !.pc = IF signed THEN "built" ELSE "threw"]
    /\ UNCHANGED <<custodianVars, clientVars, otherVars, proposal, file, grounded, persist, lateVars>>

SeekNext ==
    \/ CreateSignedDeliverRequest_Call
    \/ CreateSignedDeliverRequest_Signed

\* ------------------------------------------------------ FileStore on disk
\* A file: absent, or holding the JSON of a map. `complete` is false while
\* a writeFile has truncated the file and not yet written all of its data.
AbsentFile == [exists |-> FALSE, data |-> EmptyStore, complete |-> TRUE]
WrittenFile(data) == [exists |-> TRUE, data |-> data, complete |-> TRUE]
PartialFile(data) == [exists |-> TRUE, data |-> data, complete |-> FALSE]

FileKeys == {DB_KEYS.CERTIFICATE, DB_KEYS.SALT}
FileValues == {"v1", "v2"}

\* The path save() hands to fs.writeFile: filePath + ".tmp".
WriteTarget_InPlace == "disk"

WriteTarget == "tmp"

\* load(): the cache is what the identity file parses to; no file and an
\* empty file give an empty map, and so does a file that is no valid JSON.
Loaded(disk) == IF disk.exists /\ disk.complete THEN disk.data ELSE EmptyStore

\* load() resets a file that is no valid JSON to the empty string.
AfterLoad(disk) == IF disk.exists /\ ~disk.complete THEN WrittenFile(EmptyStore) ELSE disk

NoFileCall ==
    [pc |-> "idle", disk |-> AbsentFile, tmp |-> AbsentFile,
     before |-> AbsentFile, after |-> EmptyStore, crashed |-> FALSE]

FileIdle == file = NoFileCall

\* set(key, value) or del(key): load, change the cache, start save().
FileStore_Call ==
    /\ file.pc = "idle"
    /\ \E key \in FileKeys, op \in {"set", "del"}, value \in FileValues :
        LET disk == AfterLoad(file.disk)
            cache == IF op = "set" THEN StoreSet(Loaded(file.disk), key, value)
                                   ELSE StoreDel(Loaded(file.disk), key)
        IN  file' = [file EXCEPT !.pc = "mkdir", !.disk = disk, !.before = disk,
                                 !.after = cache, !.crashed = FALSE]
    /\ UNCHANGED <<custodianVars, clientVars, otherVars, proposal, seek, grounded, persist, lateVars>>

\* fs.mkdir(dir, {recursive: true})
Save_Mkdir ==
    /\ file.pc = "mkdir"
    /\ file' = [file EXCEPT !.pc = "open"]
    /\ UNCHANGED <<custodianVars, clientVars, otherVars, proposal, seek, grounded, persist, lateVars>>

\* fs.writeFile(tempPath, data, {mode: 0o600}) opens and truncates the file...
Save_WriteFile_Open ==
    /\ file.pc = "open"
    /\ file' = [file EXCEPT !.pc = "write", ![WriteTarget] = PartialFile(file.after)]
    /\ UNCHANGED <<custodianVars, clientVars, otherVars, proposal, seek, grounded, persist, lateVars>>

\* ...and has written all of the data when it resolves.
Save_WriteFile_Done ==
    /\ file.pc = "write"
    /\ file' = [file EXCEPT !.pc = "chmod", ![WriteTarget] = WrittenFile(file.after)]
    /\ UNCHANGED <<custodianVars, clientVars, otherVars, proposal, seek, grounded, persist, lateVars>>

\* fs.chmod(tempPath, 0o600)
Save_Chmod ==
    /\ file.pc = "chmod"
    /\ file' = [file EXCEPT !.pc = "rename"]
    /\ UNCHANGED <<custodianVars, clientVars, otherVars, proposal, seek, grounded, persist, lateVars>>

\* fs.rename(tempPath, filePath): the identity file becomes the temp file.
Save_Rename ==
    /\ file.pc = "rename"
    /\ file' = [file EXCEPT !.pc = "idle", !.disk = file[WriteTarget], !.tmp = AbsentFile]
    /\ UNCHANGED <<custodianVars, clientVars, otherVars, proposal, seek, grounded, persist, lateVars>>

\* The process dies during a call: the files stay as they are, the cache and
\* the rest of the call are lost.
FileStore_Crash ==
    /\ file.pc # "idle"
    /\ file' = [file EXCEPT !.pc = "idle", !.crashed = TRUE]
    /\ UNCHANGED <<custodianVars, clientVars, otherVars, proposal, seek, grounded, persist, lateVars>>

FileNext ==
    \/ FileStore_Call
    \/ Save_Mkdir
    \/ Save_WriteFile_Open
    \/ Save_WriteFile_Done
    \/ Save_Chmod
    \/ Save_Rename
    \/ FileStore_Crash

\* ------------------------------------------------- utils/error-parser.ts
\* What a gateway call can throw: a ConnectError with its message and its
\* details, another Error with its message, or a value that is no Error
\* (`message` is then String(error)). An incoming detail holds its value as a
\* Uint8Array; a detail made from a message object holds no bytes.
MaxDetails == 2

BytesDetail(bytes) == <<"Uint8Array", bytes>>
MessageDetail == <<"Message", <<>>>>
SampleDetails ==
    {BytesDetail(<<>>), BytesDetail(<<102>>), BytesDetail(<<195, 169>>),
     BytesDetail(<<255>>), MessageDetail}
SampleMessages == {<<>>, <<111>>}

RECURSIVE DetailLists(_)
DetailLists(n) ==
    IF n = 0 THEN {<<>>}
    ELSE DetailLists(n - 1)
         \cup {<<d>> \o ds : d \in SampleDetails,
                            ds \in {l \in DetailLists(n - 1) : Len(l) = n - 1}}

ThrownErrors ==
    {[kind |-> "ConnectError", message |-> m, details |-> ds] :
        m \in SampleMessages, ds \in DetailLists(MaxDetails)}
    \cup {[kind |-> k, message |-> m, details |-> <<>>] :
        k \in {"Error", "other"}, m \in SampleMessages}

\* details.map(...).filter(msg => msg !== null): the decoded text of every
\* detail whose value is a Uint8Array, in order.
RECURSIVE DecodedDetails(_)
DecodedDetails(details) ==
    IF details = <<>> THEN <<>>
    ELSE (IF Head(details)[1] = "Uint8Array"
              THEN <<TextDecode(Head(details)[2])>>
              ELSE <<>>)
         \o DecodedDetails(Tail(details))

\* Array.prototype.join("; \n")
RECURSIVE Join(_)
Join(strs) ==
    IF strs = <<>> THEN <<>>
    ELSE IF Len(strs) = 1 THEN strs[1]
    ELSE strs[1] \o <<59, 32, 10>> \o Join(Tail(strs))

\* The joined details, or the outer message when the joined text is empty.
GroundedMessage_OrOuter(error) ==
    IF error.kind = "ConnectError" /\ Join(DecodedDetails(error.details)) # <<>>
    THEN Join(DecodedDetails(error.details))
    ELSE error.message

\* getGroundedError(error)
GroundedMessage(error) ==
    IF error.kind = "ConnectError" /\ Len(DecodedDetails(error.details)) > 0
    THEN Join(DecodedDetails(error.details))
    ELSE error.message

NoError == [kind |-> "none", message |-> <<>>, details |-> <<>>]
NoGrounded == [pc |-> "idle", error |-> NoError, message |-> <<>>]

GroundedIdle == grounded = NoGrounded

\* The body handed to tryCatch throws.
Gateway_Throws ==
    /\ grounded.pc = "idle"
    /\ \E error \in ThrownErrors :
        grounded' = [grounded EXCEPT !.pc = "thrown", !.error = error]
    /\ UNCHANGED <<custodianVars, clientVars, otherVars, proposal, seek, file, persist, lateVars>>

\* tryCatch's catch: Err(getGroundedError(error)) is returned to the caller.
TryCatch_Catch ==
    /\ grounded.pc = "thrown"
    /\ grounded' = [grounded EXCEPT !.pc = "returned",
                                    !.message = GroundedMessage(grounded.error)]
    /\ UNCHANGED <<custodianVars, clientVars, otherVars, proposal, seek, file, persist, lateVars>>

GroundedNext ==
    \/ Gateway_Throws
    \/ TryCatch_Catch

\* ------------------------------- the KeyStore between the engine's writes
\* createIdentity and deleteIdentity of the password engine at the level of
\* the single store calls: the calls issued and not yet settled (`pending`),
\* the record being written, and whether a call of the batch was rejected.
NoBatch == [pc |-> "idle", pending |-> {}, entries |-> EmptyStore, failed |-> FALSE]

PersistIdle == persist = NoBatch

\* createIdentity's persistence: one setMany on the file store; otherwise
\* Promise.all over four store.set calls, each settling on its own.
CreateIdentity_Persist ==
    /\ persist.pc = "idle"
    /\ \E cred \in {c \in Credentials : ImportableKey(c.keyPem)},
          rand \in Randoms, mnemonic \in Mnemonics :
        LET options == [certPem |-> cred.certPem, keyPem |-> cred.keyPem,
                        password |-> NoPassword]
            entries == SealedEntries(options, mnemonic,
                           [salt |-> rand.salt, iv |-> rand.iv, mnemonic |-> mnemonic])
        IN  IF isNode /\ StoreOffersSetMany
                THEN /\ store' = StoreSetMany(store, entries)
                     /\ persist' = NoBatch
                ELSE /\ store' = store
                     /\ persist' = [pc |-> "set", pending |-> SealedKeys,
                                    entries |-> entries, failed |-> FALSE]
    /\ UNCHANGED <<isNode, unlockedKey, unlockedCert, issued, ret, hist,
                   clientVars, otherVars, proposal, seek, file, grounded, lateVars>>

\* One store.set of the batch resolves: its key is written.
Set_Resolves ==
    /\ persist.pc = "set"
    /\ \E k \in persist.pending :
        /\ store' = StoreSet(store, k, persist.entries[k])
        /\ persist' = [persist EXCEPT !.pending = @ \ {k}]
    /\ UNCHANGED <<isNode, unlockedKey, unlockedCert, issued, ret, hist,
                   clientVars, otherVars, proposal, seek, file, grounded, lateVars>>

\* One store.set of the batch rejects: its key is not written, Promise.all
\* rejects and the other calls go on.
Set_Rejects ==
    /\ persist.pc = "set"
    /\ \E k \in persist.pending :
        persist' = [persist EXCEPT !.pending = @ \ {k}, !.failed = TRUE]
    /\ UNCHANGED <<custodianVars, clientVars, otherVars, proposal, seek, file, grounded, lateVars>>

\* deleteIdentity: store.clear when the store has one; otherwise Promise.all
\* over four store.del calls.
DeleteIdentity_Persist ==
    /\ persist.pc = "idle"
    /\ IF StoreOffersClear
           THEN /\ store' = StoreClear(store)
                /\ persist' = NoBatch
           ELSE /\ store' = store
                /\ persist' = [pc |-> "del", pending |-> SealedKeys,
                               entries |-> EmptyStore, failed |-> FALSE]
    /\ UNCHANGED <<isNode, unlockedKey, unlockedCert, issued, ret, hist,
                   clientVars, otherVars, proposal, seek, file, grounded, lateVars>>

Del_Resolves ==
    /\ persist.pc = "del"
    /\ \E k \in persist.pending :
        /\ store' = StoreDel(store, k)
        /\ persist' = [persist EXCEPT !.pending = @ \ {k}]
    /\ UNCHANGED <<isNode, unlockedKey, unlockedCert, issued, ret, hist,
                   clientVars, otherVars, proposal, seek, file, grounded, lateVars>>

Del_Rejects ==
    /\ persist.pc = "del"
    /\ \E k \in persist.pending :
        persist' = [persist EXCEPT !.pending = @ \ {k}, !.failed = TRUE]
    /\ UNCHANGED <<custodianVars, clientVars, otherVars, proposal, seek, file, grounded, lateVars>>

\* Every call of the batch has settled: the operation returns its Result.
Batch_Settles ==
    /\ persist.pc # "idle"
    /\ persist.pending = {}
    /\ persist' = [persist EXCEPT !.pc = "idle"]
    /\ UNCHANGED <<custodianVars, clientVars, otherVars, proposal, seek, file, grounded, lateVars>>

PersistNext ==
    \/ CreateIdentity_Persist
    \/ Set_Resolves
    \/ Set_Rejects
    \/ DeleteIdentity_Persist
    \/ Del_Resolves
    \/ Del_Rejects
    \/ Batch_Settles

\* ---------------------------------- concurrent calls on one FileStore
\* Two writers share one FileStore (one identity file, one temp path); each
\* calls set or del on a key of its own, up to MaxCalls times. A call is
\* readFile, then (load's continuation, the change of the cache and the
\* serialization at the head of save, which run without an await between
\* them) the data to write, then mkdir, writeFile(temp), chmod(temp) and
\* rename(temp, file), each awaited.
MaxCalls == 2

Writers == {"A", "B"}
WriterKey(w) == IF w = "A" THEN DB_KEYS.CERTIFICATE ELSE DB_KEYS.SALT

NoWriter ==
    [pc |-> "idle", op |-> "none", snapshot |-> AbsentFile, data |-> EmptyStore,
     calls |-> 0, last |-> "none", error |-> "null"]
NoRace == [disk |-> AbsentFile, tmp |-> AbsentFile, w |-> [x \in Writers |-> NoWriter]]

RaceIdle == race = NoRace

\* set(key, value) / del(key) is called: load() issues fs.readFile.
Writer_Call(w) ==
    /\ race.w[w].pc \in {"idle", "done"}
    /\ race.w[w].calls < MaxCalls
    /\ \E op \in {"set", "del"} :
        race' = [race EXCEPT !.w[w] = [@ EXCEPT !.pc = "read", !.op = op,
                                                !.calls = @ + 1]]
    /\ UNCHANGED <<custodianVars, clientVars, otherVars, utilVars, worker, sub>>

\* fs.readFile resolves with the file as it is now.
Writer_ReadFile(w) ==
    /\ race.w[w].pc = "read"
    /\ race' = [race EXCEPT !.w[w] = [@ EXCEPT !.pc = "loaded",
                                              !.snapshot = race.disk]]
    /\ UNCHANGED <<custodianVars, clientVars, otherVars, utilVars, worker, sub>>

\* load() replaces the cache by what it read, set/del changes it, save()
\* serializes it.
Writer_Serialize(w) ==
    /\ race.w[w].pc = "loaded"
    /\ LET cache == Loaded(race.w[w].snapshot)
           data == IF race.w[w].op = "set"
                       THEN StoreSet(cache, WriterKey(w), "v1")
                       ELSE StoreDel(cache, WriterKey(w))
       IN  race' = [race EXCEPT !.w[w] = [@ EXCEPT !.pc = "mkdir", !.data = data]]
    /\ UNCHANGED <<custodianVars, clientVars, otherVars, utilVars, worker, sub>>

Writer_Mkdir(w) ==
    /\ race.w[w].pc = "mkdir"
    /\ race' = [race EXCEPT !.w[w] = [@ EXCEPT !.pc = "write"]]
    /\ UNCHANGED <<custodianVars, clientVars, otherVars, utilVars, worker, sub>>

\* fs.writeFile(tempPath, data): the temp file holds this writer's data.
Writer_WriteFile(w) ==
    /\ race.w[w].pc = "write"
    /\ race' = [race EXCEPT !.tmp = WrittenFile(race.w[w].data),
                            !.w[w] = [@ EXCEPT !.pc = "chmod"]]
    /\ UNCHANGED <<custodianVars, clientVars, otherVars, utilVars, worker, sub>>

\* fs.chmod(tempPath): rejects with ENOENT when the temp file is gone.
Writer_Chmod(w) ==
    /\ race.w[w].pc = "chmod"
    /\ race' = [race EXCEPT !.w[w] =
            IF race.tmp.exists
                THEN [@ EXCEPT !.pc = "rename"]
                ELSE [@ EXCEPT !.pc = "done", !.error = "ENOENT"]]
    /\ UNCHANGED <<custodianVars, clientVars, otherVars, utilVars, worker, sub>>

\* fs.rename(tempPath, filePath): rejects with ENOENT when the temp file is
\* gone; otherwise the identity file becomes the temp file.
Writer_Rename(w) ==
    /\ race.w[w].pc = "rename"
    /\ race' =
        IF race.tmp.exists
            THEN [race EXCEPT !.disk = race.tmp, !.tmp = AbsentFile,
                              !.w[w] = [@ EXCEPT !.pc = "done", !.last = race.w[w].op]]
            ELSE [race EXCEPT !.w[w] = [@ EXCEPT !.pc = "done", !.error = "ENOENT"]]
    /\ UNCHANGED <<custodianVars, clientVars, otherVars, utilVars, worker, sub>>

RaceNext ==
    \E w \in Writers :
        \/ Writer_Call(w)
        \/ Writer_ReadFile(w)
        \/ Writer_Serialize(w)
        \/ Writer_Mkdir(w)
        \/ Writer_WriteFile(w)
        \/ Writer_Chmod(w)
        \/ Writer_Rename(w)

\* ------------------------------- IdentityService requests to the worker
\* The browser path of IdentityService.request: every call adds its own
\* "message" listener to the worker and posts {action, payload, engineType};
\* the worker's async onmessage handler posts one result per request. Neither
\* message carries an identifier of the request.
NumRequests == 3
Requests == 1..NumRequests
RequestActions == {"DoesIdentityExist", "SignPayload"}

NoRequest == [pc |-> "idle", action |-> "none", data |-> <<>>]
NoWorker ==
    [req |-> [r \in Requests |-> NoRequest],
     inbox |-> <<>>, running |-> {}, outbox |-> <<>>]
WorkerIdle == worker = NoWorker

\* The result the worker computes for a request: named by the request it
\* answers and that request's action.
ResultOf(r) == [to |-> r, action |-> worker.req[r].action]

\* request(action, payload, engineType): addEventListener, then postMessage.
Request_Call(r) ==
    /\ worker.req[r].pc = "idle"
    /\ \E action \in RequestActions :
        worker' = [worker EXCEPT
                      !.req[r] = [pc |-> "listening", action |-> action, data |-> <<>>],
                      !.inbox = Append(@, r)]
    /\ UNCHANGED <<custodianVars, clientVars, otherVars, utilVars, race, sub>>

\* self.onmessage starts for the next posted request and suspends at the
\* await of its engine call.
Worker_OnMessage ==
    /\ worker.inbox # <<>>
    /\ worker' = [worker EXCEPT !.inbox = Tail(@),
                                !.running = @ \cup {Head(worker.inbox)}]
    /\ UNCHANGED <<custodianVars, clientVars, otherVars, utilVars, race, sub>>

\* A suspended handler resumes and posts its result: self.postMessage(result).
Worker_PostMessage(r) ==
    /\ r \in worker.running
    /\ worker' = [worker EXCEPT !.running = @ \ {r},
                                !.outbox = Append(@, ResultOf(r))]
    /\ UNCHANGED <<custodianVars, clientVars, otherVars, utilVars, race, sub>>

\* The handleResponse listeners that a "message" event of the worker runs.
Listeners(result) == {r \in Requests : worker.req[r].pc = "listening"}

\* The main thread receives the next result: every registered handleResponse
\* runs, removes itself and resolves its promise with event.data.
Main_OnMessage ==
    /\ worker.outbox # <<>>
    /\ LET result == Head(worker.outbox)
       IN  worker' = [worker EXCEPT
                         !.outbox = Tail(@),
                         !.req = [r \in Requests |->
                                     IF r \in Listeners(result)
                                         THEN [@[r] EXCEPT !.pc = "resolved",
                                                           !.data = <<result>>]
                                         ELSE @[r]]]
    /\ UNCHANGED <<custodianVars, clientVars, otherVars, utilVars, race, sub>>

WorkerNext ==
    \/ \E r \in Requests : Request_Call(r) \/ Worker_PostMessage(r)
    \/ Worker_OnMessage
    \/ Main_OnMessage


\* ------------------------------------ onChaincodeEvent / onBlockEvent
\* The callback API: a generator consumed by consumeAsyncGenerator, and the
\* unsubscribe function that aborts its signal. log holds the callbacks in
\* the order they were invoked.
MaxUnsubscribes == 2

NoSub == [pc |-> "idle", log |-> <<>>, unsubscribed |-> FALSE, calls |-> 0]
SubIdle == sub = NoSub

Invoked(cb, arg) == [cb |-> cb, arg |-> arg]

\* A consumer loop without the check of the signal.
ConsumerBreaks_Never(aborted) == FALSE

\* if (signal.aborted) break;
ConsumerBreaks(aborted) == aborted

\* The catch clause of consumeAsyncGenerator: errors named AbortError are
\* dropped, every other error goes to onError.
ReportedToOnError(error) == error.name # "AbortError"

\* onChaincodeEvent / onBlockEvent: a new AbortController, the generator, and
\* consumeAsyncGenerator, which pulls the generator at once.
Subscribe ==
    /\ sub.pc = "idle"
    /\ stream.pc = "idle"
    /\ \E kind \in {"block", "chaincode"} :
        stream' = [NoStream EXCEPT !.kind = kind, !.pc = "signing"]
    /\ sub' = [sub EXCEPT !.pc = "consuming"]
    /\ UNCHANGED <<custodianVars, clientVars, signers, api, signer, utilVars, race, worker>>

\* What the generator, its transport and the peer do while the consumer
\* waits for the next value.
Generator_Step ==
    /\ sub.pc = "consuming"
    /\ stream.pc # "yielded"
    /\ \/ Deliver_SignDone
       \/ Socket_Open
       \/ Socket_Error
       \/ Socket_Message
       \/ Socket_Close
       \/ Chaincode_SignDone
       \/ Chaincode_Response
       \/ Chaincode_End

\* The loop body of consumeAsyncGenerator for a yielded value: break when the
\* signal is aborted (the generator is returned), else onData and the next
\* pull. onData itself may call the unsubscribe function.
Consumer_Delivers ==
    /\ sub.pc = "consuming"
    /\ stream.pc = "yielded"
    /\ IF ConsumerBreaks(stream.aborted)
           THEN /\ stream' = Ended([stream EXCEPT !.left = TRUE], <<>>, TRUE)
                /\ sub' = sub
           ELSE \E unsubscribes \in BOOLEAN :
                /\ unsubscribes => sub.calls < MaxUnsubscribes
                /\ sub' = [sub EXCEPT
                              !.log = Append(@, Invoked("onData",
                                          <<stream.yielded[Len(stream.yielded)]>>)),
                              !.unsubscribed = @ \/ unsubscribes,
                              !.calls = IF unsubscribes THEN @ + 1 ELSE @]
                /\ stream' = AfterPull(IF unsubscribes /\ ~stream.aborted
                                           THEN AfterAbort(stream) ELSE stream)
    /\ UNCHANGED <<custodianVars, clientVars, signers, api, signer, utilVars, race, worker>>

\* The generator is done: the loop ends or throws, the catch clause reports
\* the error, and the finally clause calls onClose.
Consumer_Finishes ==
    /\ sub.pc = "consuming"
    /\ stream.pc = "done"
    /\ sub' = [sub EXCEPT
                  !.pc = "finished",
                  !.log = (IF stream.outcome = "threw" /\ ReportedToOnError(stream.error[1])
                               THEN Append(@, Invoked("onError", stream.error))
                               ELSE @)
                          \o <<Invoked("onClose", <<>>)>>]
    /\ UNCHANGED <<custodianVars, clientVars, otherVars, utilVars, race, worker>>

\* The function returned to the caller: abort unless already aborted.
Unsubscribe ==
    /\ sub.pc # "idle"
    /\ sub.calls < MaxUnsubscribes
    /\ sub' = [sub EXCEPT !.unsubscribed = TRUE, !.calls = @ + 1]
    /\ stream' = IF ~stream.aborted THEN AfterAbort(stream) ELSE stream
    /\ UNCHANGED <<custodianVars, clientVars, signers, api, signer, utilVars, race, worker>>

\* What runs without the caller or the peer: signing and connecting settle,
\* an awaited gRPC stream ends, and the consumer's continuations run.
CallbackProgress ==
    \/ sub.pc = "consuming" /\ StreamProgress
    \/ Consumer_Delivers
    \/ Consumer_Finishes

CallbackNext ==
    \/ Subscribe
    \/ Generator_Step
    \/ Consumer_Delivers
    \/ Consumer_Finishes
    \/ Unsubscribe


Init ==
    /\ CustodianInit /\ ClientIdle /\ SignersIdle /\ StreamIdle /\ ApiIdle /\ SignerIdle
    /\ ProposalIdle /\ SeekIdle /\ FileIdle /\ GroundedIdle /\ PersistIdle
    /\ RaceIdle /\ WorkerIdle /\ SubIdle

\* The custodian on its own: every public IdentityService operation.
Next == CustodianNext

Spec == Init /\ [][Next]_vars

\* The client with the custodian operations that make signing succeed or
\* fail while a submitAndCommit call is in flight.
ClientSpecNext ==
    \/ ClientNext
    \/ ImportIdentity
    \/ DeleteIdentity

ClientSpec == Init /\ [][ClientSpecNext]_vars

\* Concurrent sign requests against the custodian.
SignSpecNext ==
    \/ \E c \in Callers : Request_SignPayload(c)
    \/ \E c \in Callers : SignPayload_Resolves(c)
    \/ \E c \in Callers : Caller_Returns(c)
    \/ ImportIdentity
    \/ DeleteIdentity

SignSpec == Init /\ [][SignSpecNext]_vars

\* The public operations of FabricClient and IdentityService, each with the
\* failures its awaited steps can meet.
ApiSpec == Init /\ [][ApiNext]_vars

\* Every signed message with every raw signature of the sample.
SignerSpec == Init /\ [][SignerNext]_vars

\* buildProposalPayload on every input of the sample.
ProposalSpec == Init /\ [][ProposalNext]_vars

\* createSignedDeliverRequest with every start and stop block of the sample.
SeekSpec == Init /\ [][SeekNext]_vars

\* The custodian's create and delete requests for both engines.
EngineSpec == Init /\ [][EngineNext]_vars

\* Two writers on one FileStore.
RaceSpec == Init /\ [][RaceNext]_vars

WorkerSpec == Init /\ [][WorkerNext]_vars

CallbackSpec == Init /\ [][CallbackNext]_vars /\ WF_vars(CallbackProgress)

\* The password engine's store calls, one at a time.
PersistSpec == Init /\ [][PersistNext]_vars

\* One failing gateway call and the message its Result carries.
GroundedSpec == Init /\ [][GroundedNext]_vars

\* The FileStore under set and del calls, with a crash possible at each step.
FileSpec == Init /\ [][FileNext]_vars

\* One event stream, its consumer and its cancellation signal.
StreamSpec == Init /\ [][StreamNext]_vars

\* The same, where a pending signature and a pending connection settle and
\* an awaited gRPC stream ends. The consumer, the peer and the holder of the
\* signal are under no obligation.
StreamLiveSpec == Init /\ [][StreamNext]_vars /\ WF_vars(StreamProgress)

\* =================================================================== Claims
\* A message contains a part (a transaction id, a validation code, a text).
Contains(message, part) ==
    \E i \in 1..Len(message) : message[i][1] = part[1] /\ message[i][2] = part[2]

\* The positions of an event in the log of the call in flight.
At(event) == {i \in 1..Len(tx.log) : tx.log[i] = event}

\* C1: in submitAndCommit, a stage that fails makes the call return an Err
\* carrying that first failure, and no later stage's RPC is issued; when the
\* Submit RPC fails, CommitStatus is never called and no Ok is returned.
C1_FirstFailureEndsTheCall ==
    /\ rpc["Endorse"] = "failed" => rpc["Submit"] = "none" /\ rpc["CommitStatus"] = "none"
    /\ rpc["Submit"] = "failed" => rpc["CommitStatus"] = "none" /\ ~sac.success
    /\ tx.failed # <<>> /\ tx.failed[1] = "Submit" => rpc["CommitStatus"] = "none"
    /\ pc = "done" /\ tx.failed # <<>> => ~sac.success /\ sac.error = tx.failed[2]

\* C2: submitAndCommit returns Ok only if the CommitStatus RPC returned
\* VALID; for every other validation code it returns an Err whose message
\* contains the transaction id and the validation code.
C2_OkOnlyIfValid ==
    /\ sac.success =>
        /\ pc = "done"
        /\ rpc["CommitStatus"] = "ok"
        /\ tx.status = <<TxValidationCode_VALID>>
        /\ sac.txId = tx.txId
    /\ (pc = "done" /\ rpc["CommitStatus"] = "ok"
            /\ tx.status # <<TxValidationCode_VALID>>) =>
        /\ ~sac.success
        /\ Contains(sac.error, <<"txId", tx.txId>>)
        /\ Contains(sac.error, <<"code", tx.status[1]>>)
        /\ Contains(sac.error, <<"text", TxValidationCodeName(tx.status[1])>>)

\* A call ended on a CommitStatus response carrying MVCC_READ_CONFLICT.
C2_Witness ==
    /\ pc = "done"
    /\ rpc["CommitStatus"] = "ok"
    /\ tx.status = <<11>>
    /\ ~sac.success
    /\ Contains(sac.error, <<"txId", tx.txId>>)

SealedSecret(st) == st[DB_KEYS.ENCRYPTED_KEY][2][2]

\* C4: sign with no unlocked key (none ever unlocked, or deleteIdentity
\* completed and no create, unlock or import succeeded since) fails, yields
\* no signature, and leaves the custodian and the KeyStore unchanged.
C4_SignNeedsUnlockedKey ==
    [][(ret'.op = "sign" /\ (unlockedKey = NullKey \/ hist.cleared)) =>
            /\ ~ret'.success
            /\ ret'.sig = NoSignature
            /\ ret'.error = "Cannot sign: No identity is currently unlocked."
            /\ UNCHANGED <<unlockedKey, unlockedCert, store>>]_vars

\* A sign was refused after deleteIdentity had dropped the key.
C4_Witness ==
    /\ ret.op = "sign"
    /\ ~ret.success
    /\ ret.sig = NoSignature
    /\ hist.cleared
    /\ ~hist.held
    /\ unlockedKey = NullKey

\* C5: unlockIdentity with a password other than the one the stored record
\* was sealed under fails with an error, leaves the sealed record unchanged,
\* doesPasswordIdentityExist stays true, and an unlock with the password of
\* the create that wrote the record still succeeds.
C5_WrongPasswordRefused ==
    [][(/\ ret'.op = "unlockIdentity"
        /\ StoreHas(store, DB_KEYS.ENCRYPTED_KEY)
        /\ ret'.password # SealedSecret(store)) =>
            /\ ~ret'.success
            /\ ret'.error # "null"
            /\ ret'.cert = NullCert
            /\ store' = store
            /\ Password_doesIdentityExist(store').flag
            /\ hist.sealed # NoSealed =>
                Password_unlockIdentity(store',
                    [password |-> hist.sealed[1].secret]).success]_vars

\* An unlock was refused for its password while a created record is stored.
C5_Witness ==
    /\ ret.op = "unlockIdentity"
    /\ ret.mode = "password-based"
    /\ ~ret.success
    /\ ret.error = "OperationError"
    /\ hist.sealed # NoSealed
    /\ ret.password # hist.sealed[1].secret
    /\ Password_doesIdentityExist(store).flag

\* C6, as stated: an unlockIdentity that fails authentication leaves the
\* custodian untouched, the previously unlocked key and certificate still held.
C6_FailedUnlockKeepsCustodian ==
    [][(/\ ret'.op = "unlockIdentity"
        /\ ~ret'.success
        /\ ret'.error = "OperationError"
        /\ unlockedKey # NullKey) =>
            /\ unlockedKey' = unlockedKey
            /\ unlockedCert' = unlockedCert]_vars

\* C6: an unlockIdentity that fails authentication leaves the KeyStore
\* untouched and clears the custodian: unlockedKey and unlockedCert are null
\* afterwards, whatever was unlocked before, so that sign fails.
C6_FailedUnlockClearsCustodian ==
    [][(/\ ret'.op = "unlockIdentity"
        /\ ~ret'.success
        /\ ret'.error = "OperationError") =>
            /\ store' = store
            /\ unlockedKey' = NullKey
            /\ unlockedCert' = NullCert
            /\ ~(Perform_SignPayload("bytes").result.success)']_vars

\* An unlock failed authentication while a key was unlocked.
C6_Witness ==
    /\ ret.op = "unlockIdentity"
    /\ ~ret.success
    /\ ret.error = "OperationError"
    /\ hist.held
    /\ unlockedKey = NullKey
    /\ unlockedCert = NullCert

\* C7: with no create or delete since a successful create, unlockIdentity
\* with the password of that create succeeds, returns the certificate given
\* to it and unlocks the private key given to it, however many unlocks
\* failed in between.
C7_CreateThenUnlockRoundTrip ==
    (/\ ret.op = "unlockIdentity"
     /\ ret.mode = "password-based"
     /\ hist.sealed # NoSealed
     /\ ret.password = hist.sealed[1].secret) =>
        /\ ret.success
        /\ ret.cert = hist.sealed[1].certPem
        /\ unlockedCert = hist.sealed[1].certPem
        /\ unlockedKey = ImportPKCS8(hist.sealed[1].keyPem)

\* An unlock with the creating password succeeded after a failed attempt.
C7_Witness ==
    /\ ret.op = "unlockIdentity"
    /\ ret.mode = "password-based"
    /\ ret.success
    /\ hist.sealed # NoSealed
    /\ hist.failedSince
    /\ ret.password = hist.sealed[1].secret
    /\ ret.cert = "certB"
    /\ unlockedKey = ImportPKCS8("keyB")

\* C8: doesPasswordIdentityExist returns true exactly when a successful
\* create has not been followed by a delete.
C8_ExistsIffCreatedAndNotDeleted ==
    (ret.op = "doesIdentityExist" /\ ret.mode = "password-based") =>
        /\ ret.success
        /\ ret.flag = hist.live

\* C9: after deleteIdentity, unlockedKey and unlockedCert are both null and
\* none of the four sealed fields remains in the KeyStore.
C9_DeleteLeavesNothing ==
    ret.op = "deleteIdentity" =>
        /\ unlockedKey = NullKey
        /\ unlockedCert = NullCert
        /\ SealedKeys \cap StoreKeys(store) = {}

\* C10: no value returned by a public IdentityService operation carries the
\* private key handle or the private key PEM.
C10_NoKeyReturned ==
    /\ ret.key = NullKey
    /\ ret.phrase \notin KeyPems
    /\ ret.cert \notin KeyPems

\* C11: under any interleaving of concurrent callers, at most one sign is
\* executing on the custodian's unlocked key at any time.
C11_OneSignAtATime ==
    Cardinality({c \in Callers : signers[c].pc = "signing"}) <= 1

C13_CancelledStreamEnds ==
    (stream.kind = "block" /\ stream.aborted)
        ~> (stream.pc = "done" /\ stream.socket # "OPEN")

\* The FilteredBlock frames among the frames that arrived before cancellation.
BlocksArrived == SelectSeq(stream.arrived, LAMBDA frame : frame[1] = "filteredBlock")

\* C14: the blocks yielded are the FilteredBlock frames that arrived, each
\* once and in arrival order, none skipped: at every moment the sequence
\* yielded is a prefix of the sequence arrived.
C14_BlocksYieldedInArrivalOrder ==
    stream.kind = "block" =>
        /\ Len(stream.yielded) <= Len(BlocksArrived)
        /\ stream.yielded = SubSeq(BlocksArrived, 1, Len(stream.yielded))

\* What the caller of the public operation last called has observed.
Settled == api.call.settled

\* C15: every FabricClient transaction operation and every IdentityService
\* operation settles by returning a Result that is either a success with data
\* and a null error, or a failure with null data and an error; no failure of
\* the transport, the custodian or the store is thrown to the caller.
C15_OperationsReturnResults ==
    /\ Settled.kind # "thrown"
    /\ Settled.kind = "returned" =>
        \/ /\ Settled.result.success
           /\ Settled.result.data # <<>>
           /\ Settled.result.error = <<>>
        \/ /\ ~Settled.result.success
           /\ Settled.result.data = <<>>
           /\ Settled.result.error # <<>>

\* submitAndCommit got as far as CommitStatus, the transport failed there,
\* and the caller was handed a failure Result.
C15_Witness ==
    /\ api.call.op = "submitAndCommit"
    /\ api.call.rpcs = <<"Endorse", "Submit", "CommitStatus">>
    /\ Settled = Resolved(ResultErr(<<"ConnectError", "CommitStatus">>))

\* C16: a client configured with a gateway URL and no WebSocket URL can be
\* constructed (and so can run the transaction operations).
C16_ClientWithoutWsUrlIsConstructed ==
    (api.client # "none" /\ ~api.wsUrl) => api.client = "constructed"

\* C17: evaluateTransaction issues only the Evaluate RPC, whether it succeeds
\* or fails: never Endorse, Submit or CommitStatus.
C17_EvaluateIssuesOnlyEvaluate ==
    api.call.op = "evaluateTransaction" =>
        \A i \in DOMAIN api.call.rpcs : api.call.rpcs[i] = "Evaluate"

\* An evaluateTransaction whose proposal was signed and sent, and which the
\* gateway answered with an error.
C17_Witness ==
    /\ api.call.op = "evaluateTransaction"
    /\ api.call.rpcs = <<"Evaluate">>
    /\ Settled.kind = "returned"
    /\ ~Settled.result.success

\* The two components of the raw signature the custodian returned.
RawR == SubSeq(signer.raw, 1, ComponentLen)
RawS == SubSeq(signer.raw, ComponentLen + 1, 2 * ComponentLen)

\* C18: the signature placed in every outgoing message (the SignedProposal of
\* Evaluate and Endorse, the submit Envelope, the SignedCommitStatusRequest,
\* the SignedChaincodeEventsRequest, the deliver Envelope) is the raw
\* signature after low-S normalization followed by DER encoding.
C18_PlacedSignatureIsLowSDer ==
    signer.pc = "sent" =>
        /\ signer.kind \in MessageKinds
        /\ signer.signature = RsToDer(PreventMalleability(signer.raw))

\* A deliver Envelope was sent whose raw signature had a high S.
C18_Witness ==
    /\ signer.pc = "sent"
    /\ signer.kind = "DeliverEnvelope"
    /\ BN(RawS) > HALF_N
    /\ signer.signature # RsToDer(signer.raw)

\* The content bytes of the DER INTEGER whose tag is at index `at`.
DerInteger(der, at) == SubSeq(der, at + 2, at + 1 + der[at + 1])
EncodedR == DerInteger(signer.signature, 3)
EncodedS == DerInteger(signer.signature, 5 + signer.signature[4])

\* C19: for a raw signature (R, S) with 0 < S < N the output encodes R
\* unchanged and S' = S when S <= N/2, S' = N - S otherwise; S' <= N/2.
C19_LowSNormalization ==
    (signer.pc = "sent" /\ 0 < BN(RawS) /\ BN(RawS) < N) =>
        /\ BN(EncodedR) = BN(RawR)
        /\ BN(EncodedS) = IF 2 * BN(RawS) <= N THEN BN(RawS) ELSE N - BN(RawS)
        /\ 2 * BN(EncodedS) <= N

\* A signature whose S was the smallest value above N/2 was sent.
C19_Witness ==
    /\ signer.pc = "sent"
    /\ BN(RawS) = HALF_N + 1
    /\ BN(EncodedS) = HALF_N

\* A DER INTEGER content that is positive and as short as possible.
MinimalInteger(content) ==
    /\ Len(content) >= 1
    /\ content[1] < 128
    /\ (Len(content) > 1 /\ content[1] = 0) => content[2] >= 128

\* C20: each INTEGER of the DER output is minimally encoded (first content
\* byte with the high bit clear, a leading 0x00 only as one byte before a
\* byte with the high bit set) and the INTEGER and SEQUENCE length bytes are
\* the lengths of their contents.
C20_DerIsMinimal ==
    signer.pc = "sent" =>
        /\ MinimalInteger(EncodedR)
        /\ MinimalInteger(EncodedS)
        /\ signer.signature =
              <<48, 4 + Len(EncodedR) + Len(EncodedS), 2, Len(EncodedR)>>
                  \o EncodedR \o <<2, Len(EncodedS)>> \o EncodedS

\* A signature was sent whose R needed the 0x00 prefix and whose S lost
\* padding bytes.
C20_Witness ==
    /\ signer.pc = "sent"
    /\ Len(EncodedR) = ComponentLen + 1
    /\ EncodedR[1] = 0
    /\ Len(EncodedS) < ComponentLen

\* fromBinary: a varint read at index `at`, and the fields of a message in
\* wire order, each with its number and its value (the bytes of a
\* length-delimited field, the number of a varint field).
RECURSIVE ReadVarint(_, _)
ReadVarint(bytes, at) ==
    IF bytes[at] < 128
        THEN [value |-> bytes[at], next |-> at + 1]
        ELSE LET rest == ReadVarint(bytes, at + 1)
             IN  [value |-> (bytes[at] - 128) + 128 * rest.value, next |-> rest.next]

RECURSIVE FromBinary(_, _)
FromBinary(bytes, at) ==
    IF at > Len(bytes) THEN <<>>
    ELSE LET v == ReadVarint(bytes, at + 1)
         IN  IF bytes[at] % 8 = 2
                 THEN <<[no |-> bytes[at] \div 8,
                         value |-> SubSeq(bytes, v.next, v.next + v.value - 1)]>>
                      \o FromBinary(bytes, v.next + v.value)
                 ELSE <<[no |-> bytes[at] \div 8, value |-> <<v.value>>]>>
                      \o FromBinary(bytes, v.next)

\* The values of the fields numbered `no`, in order, and the value of a
\* singular field (empty when the field is not on the wire).
RepeatedField(bytes, no) ==
    LET fields == SelectSeq(FromBinary(bytes, 1), LAMBDA f : f.no = no)
    IN  [i \in 1..Len(fields) |-> fields[i].value]
Field(bytes, no) ==
    LET values == RepeatedField(bytes, no)
    IN  IF values = <<>> THEN <<>> ELSE values[Len(values)]

\* The messages nested in the bytes of the proposal that was built.
DecodedHeader == Field(proposal.bytes, 1)
DecodedChannelHeader == Field(DecodedHeader, 1)
DecodedSignatureHeader == Field(DecodedHeader, 2)
DecodedChaincodeSpec == Field(Field(Field(proposal.bytes, 2), 1), 1)
DecodedArgs == RepeatedField(Field(DecodedChaincodeSpec, 3), 1)

\* C21: decoding the bytes of buildProposalPayload yields the given channel
\* name, transaction id, chaincode name, nonce and creator, and an argument
\* list whose element 0 is the UTF-8 function name and whose elements 1..N
\* are the caller's arguments in order, strings UTF-8 encoded and byte
\* arrays unchanged.
C21_ProposalRoundTrip ==
    proposal.built =>
        /\ TextDecode(Field(DecodedChannelHeader, 4)) = proposal.params.channelName
        /\ TextDecode(Field(DecodedChannelHeader, 5)) = proposal.txId
        /\ TextDecode(Field(Field(DecodedChaincodeSpec, 2), 2))
              = proposal.params.chaincodeName
        /\ TextDecode(Field(Field(Field(DecodedChannelHeader, 7), 2), 2))
              = proposal.params.chaincodeName
        /\ Field(DecodedSignatureHeader, 1) = proposal.creatorBytes
        /\ Field(DecodedSignatureHeader, 2) = proposal.nonce
        /\ Len(DecodedArgs) = Len(proposal.params.args) + 1
        /\ TextDecode(DecodedArgs[1]) = proposal.params.functionName
        /\ \A i \in 1..Len(proposal.params.args) :
              LET arg == proposal.params.args[i]
              IN  IF arg[1] = "string"
                      THEN /\ DecodedArgs[i + 1] = StringToUint8Array(arg[2])
                           /\ TextDecode(DecodedArgs[i + 1]) = arg[2]
                      ELSE DecodedArgs[i + 1] = arg[2]

\* A proposal was built for a function with a two-byte character in its name,
\* a string argument, and a byte array after it.
C21_Witness ==
    /\ proposal.built
    /\ proposal.params.functionName = <<233, 98>>
    /\ proposal.params.args = <<StringArg(<<233, 98>>), BytesArg(<<0, 255>>)>>
    /\ DecodedArgs = <<<<195, 169, 98>>, <<195, 169, 98>>, <<0, 255>>>>

\* C22: the deliver seek envelope has start = newest when the caller gives
\* no start block and start = specified(block) for every start block the
\* caller gives; stop is always specified(2^53 - 1).
C22_SeekStartFollowsCaller ==
    seek.pc = "built" =>
        /\ seek.start = IF seek.startBlock = Undefined
                            THEN SeekNewest ELSE SeekSpecified(seek.startBlock[2])
        /\ seek.stop = SeekSpecified(MAX_SAFE_INTEGER)

Decodable(details) == {i \in DOMAIN details : details[i][1] = "Uint8Array"}
C24_DetailsBeforeOuterMessage ==
    grounded.pc = "returned" /\ grounded.error.kind = "ConnectError" =>
        LET details == grounded.error.details
        IN  IF Decodable(details) # {}
            THEN grounded.message = Join(DecodedDetails(details))
            ELSE grounded.message = grounded.error.message

\* A ConnectError whose only decodable detail is empty, next to one that
\* cannot be decoded: the returned message is the empty decoded text, not
\* the non-empty outer message.
C24_Witness ==
    /\ grounded.pc = "returned"
    /\ grounded.error.kind = "ConnectError"
    /\ grounded.error.message # <<>>
    /\ Cardinality(Decodable(grounded.error.details)) = 1
    /\ Len(grounded.error.details) = 2
    /\ grounded.message = <<>>

\* C25: importIdentity never writes to or deletes from the KeyStore: the
\* stored keys and values, and the answer of doesPasswordIdentityExist, are
\* the same before and after the call, whether it succeeds or fails.
C25_ImportPersistsNothing ==
    [][ret'.op = "importIdentity" =>
          /\ store' = store
          /\ Password_doesIdentityExist(store') = Password_doesIdentityExist(store)]_vars

\* An import succeeded while the KeyStore holds the sealed record of another
\* certificate.
C25_Witness ==
    /\ ret.op = "importIdentity" /\ ret.success
    /\ SealedKeys \subseteq StoreKeys(store)
    /\ store[DB_KEYS.CERTIFICATE] # unlockedCert

\* C26: createPasswordIdentity called with a supplied password of length < 8
\* or of strength score < 3 returns an error, writes nothing to the KeyStore
\* and does not change which identity is unlocked.
RejectedPassword(password) ==
    /\ password # NoPassword
    /\ \/ PasswordLength(password) < MinPasswordLength
       \/ ZxcvbnScore(password) < MinScore
C26_WeakPasswordChangesNothing ==
    [][ret'.op = "createPasswordIdentity" /\ RejectedPassword(ret'.password) =>
          /\ ~ret'.success
          /\ store' = store
          /\ unlockedKey' = unlockedKey
          /\ unlockedCert' = unlockedCert]_vars

\* A password of seven characters was refused while an identity is unlocked
\* and a sealed record is stored.
C26_Witness ==
    /\ ret.op = "createPasswordIdentity" /\ ~ret.success
    /\ PasswordLength(ret.password) < MinPasswordLength /\ ret.password # NoPassword
    /\ unlockedKey # NullKey
    /\ SealedKeys \subseteq StoreKeys(store)

\* C27: in a Node environment, createHardwareIdentity and unlockIdentity in
\* hardware-based mode return a failure saying hardware identity is not
\* supported, and the KeyStore and the unlocked identity are unchanged.
C27_NodeRefusesHardware ==
    [][/\ isNode
       /\ ret'.op \in {"createHardwareIdentity", "unlockIdentity"}
       /\ ret'.mode = "hardware-based"
       =>
       /\ ~ret'.success
       /\ ret'.error = "Hardware identity is not supported in this environment."
       /\ store' = store
       /\ unlockedKey' = unlockedKey
       /\ unlockedCert' = unlockedCert]_vars

\* On Node a hardware-based unlock was refused while a password-based
\* identity is unlocked and stored.
C27_Witness ==
    /\ isNode
    /\ ret.op = "unlockIdentity" /\ ret.mode = "hardware-based" /\ ~ret.success
    /\ unlockedKey # NullKey
    /\ SealedKeys \subseteq StoreKeys(store)

\* C28: in every reachable custodian state, unlocked_key present implies
\* unlocked_cert present.
C28_KeyImpliesCert == unlockedKey # NullKey => unlockedCert # NullCert

\* A key is unlocked again by an import after a delete had cleared the key.
C28_Witness ==
    /\ ret.op = "importIdentity" /\ ret.success
    /\ unlockedKey # NullKey /\ unlockedCert # NullCert
    /\ ~hist.live /\ ~hist.cleared

\* C29: in every reachable KeyStore state, including the states between the
\* steps of createPasswordIdentity and deleteIdentity and the state left by
\* a failed operation, the four sealed-record fields (encrypted key,
\* certificate, salt, IV) are all present or all absent.
C29_AllFourOrNone ==
    \/ SealedKeys \subseteq StoreKeys(store)
    \/ SealedKeys \cap StoreKeys(store) = {}

\* C30: a signature returned through an AppIdentity is always made with the
\* private key that was unlocked when that AppIdentity was issued. Every
\* AppIdentity of the model is issued for a certificate together with the
\* key of the same credential, so the key unlocked at issue is the key that
\* belongs to the identity's certificate.
KeyIssuedWith(cert) ==
    ImportPKCS8((CHOOSE c \in Credentials :
                    c.certPem = cert /\ ImportableKey(c.keyPem)).keyPem)
C30_SignsWithTheIssuedKey ==
    ret.op = "sign" /\ ret.success =>
        \E dataToSign \in SignPayloads :
            ret.sig = RawSignature(KeyIssuedWith(ret.cert), dataToSign)

\* C31: whenever hw-fabric-credential-id is present in the KeyStore, the
\* complete password-slot sealed record is present too, after any sequence
\* of create and delete operations on either slot.
C31_CredentialIdImpliesSealedRecord ==
    StoreHas(store, WEBAUTHN_CREDENTIAL_ID_KEY) => SealedKeys \subseteq StoreKeys(store)

\* C32: deleteIdentity on the password slot has the same effect with either
\* KeyStore implementation: it removes exactly the four pbe-fabric-* keys and
\* leaves every other stored key, including hw-fabric-credential-id,
\* unchanged.
C32_DeleteRemovesExactlyTheFourKeys ==
    [][ret'.op = "DeleteIdentity" /\ ret'.mode = "password-based" =>
          store' = [k \in StoreKeys(store) \ SealedKeys |-> store[k]]]_vars

\* C38: if createPasswordIdentity returns an error after the password checks
\* have passed, no sealed record has been written or replaced: the KeyStore
\* is as it was before the call.
C38_FailedCreateWritesNothing ==
    [][/\ ret'.op = "createPasswordIdentity"
       /\ ~ret'.success
       /\ ~RejectedPassword(ret'.password)
       => store' = store]_vars

\* C33: when two FileStore write operations on different keys run
\* concurrently, both complete without error and the persisted file
\* afterwards reflects both writes; no interleaving loses an update.
Quiescent == \A w \in Writers : race.w[w].pc \in {"idle", "done"}
Reflects(w) ==
    CASE race.w[w].last = "set" -> StoreHas(race.disk.data, WriterKey(w))
      [] race.w[w].last = "del" -> ~StoreHas(race.disk.data, WriterKey(w))
      [] OTHER -> TRUE
C33_ConcurrentWritesBothLand ==
    /\ \A w \in Writers : race.w[w].error = "null"
    /\ Quiescent => \A w \in Writers : Reflects(w)

\* C34: if the deliver WebSocket closes with a non-1000 code while a
\* block-event stream is active and not cancelled, the consumer receives an
\* error from the generator on its current or next pull; the stream neither
\* ends silently nor waits forever. Until the consumer pulls, the generator
\* is at its yield; after the pull it must have thrown, unless the consumer
\* left the loop itself.
ClosedAbnormally == stream.peerClose # <<>> /\ stream.peerClose # <<1000>>
C34_AbnormalCloseReachesConsumer ==
    stream.kind = "block" /\ ClosedAbnormally /\ ~stream.aborted =>
        \/ stream.pc = "yielded"
        \/ stream.pc = "done" /\ (stream.outcome = "threw" \/ stream.left)

\* C35: whenever listenToBlockEvents closes its socket because of
\* cancellation, in the connecting phase as well as in the open phase, it
\* closes it with code 1000.
C35_CancellationClosesWith1000 ==
    stream.kind = "block" /\ stream.aborted =>
        \A i \in DOMAIN stream.closeCalls : stream.closeCalls[i] = <<1000>>

\* C36: on success, the result field returned by submitAndCommit is the
\* parser's decoding of the chaincode's simulation response payload carried
\* by the endorse response, not a decoding of the prepared envelope bytes.
C36_ResultDecodesTheResponsePayload ==
    sac.success => sac.result = DecodeChaincodePayload(tx.response)

\* C37: in the browser (worker) path, when several IdentityService requests
\* are in flight at once, each request's promise resolves with the response
\* to its own action, never with the response to another request.
C37_ResolvesWithItsOwnResponse ==
    \A r \in Requests :
        worker.req[r].pc = "resolved" => worker.req[r].data = <<ResultOf(r)>>

\* C39: for onChaincodeEvent and onBlockEvent, after the returned unsubscribe
\* function has been called onData is never invoked again and onError is not
\* invoked because of the cancellation; onClose is invoked exactly once per
\* subscription, after the last onData or onError, and calling unsubscribe a
\* second time has no effect.
CallsOf(cb, log) == Cardinality({i \in DOMAIN log : log[i].cb = cb})
NewCalls == {i \in DOMAIN sub'.log : i > Len(sub.log)}
RaisedByCancellation(error) == error \in {AbortRejection, RpcCanceled}
CallbacksAfterUnsubscribe ==
    /\ Len(sub'.log) >= Len(sub.log) /\ SubSeq(sub'.log, 1, Len(sub.log)) = sub.log
    /\ sub.unsubscribed => \A i \in NewCalls : sub'.log[i].cb # "onData"
    /\ \A i \in NewCalls :
            sub'.unsubscribed /\ sub'.log[i].cb = "onError"
                => ~RaisedByCancellation(sub'.log[i].arg[1])
    /\ CallsOf("onClose", sub.log) > 0 => sub'.log = sub.log
    /\ sub'.pc = "finished" =>
            /\ CallsOf("onClose", sub'.log) = 1
            /\ sub'.log[Len(sub'.log)].cb = "onClose"
    /\ sub.unsubscribed /\ sub'.calls > sub.calls =>
            stream' = stream /\ sub'.log = sub.log
C39_UnsubscribeEndsTheCallbacks ==
    /\ [][CallbacksAfterUnsubscribe]_vars
    /\ (sub.unsubscribed ~> CallsOf("onClose", sub.log) = 1)

\* A subscription that delivered a value, was unsubscribed twice and closed.
C39_Witness ==
    /\ sub.pc = "finished"
    /\ sub.calls = 2
    /\ CallsOf("onData", sub.log) > 0
    /\ CallsOf("onClose", sub.log) = 1

====
